---- MODULE Spec2Model ----
(***************************************************************************)
(* A model of the WordPress image replacer: the file matcher               *)
(* (src/image_matcher.py), the content rewriter (src/content_updater.py),  *)
(* the REST client (src/wordpress_api.py: listings, upload, updates,       *)
(* connection test, diagnostics), the replacement run with its Start and   *)
(* Stop buttons, and the front-end thread with the worker threads it       *)
(* starts (src/main.py).                                                   *)
(*                                                                         *)
(* Python strings are modelled as sequences of one-character strings, so   *)
(* that stripping, lower-casing, searching and replacing are computed      *)
(* character by character as the code computes them.                       *)
(*                                                                         *)
(* Each unit has its own specification (SpecNormalize, SpecMatch, ...):    *)
(* its Init draws the inputs of a call from bounded sets, its actions are  *)
(* the calls.  The variables of the other units stay idle.                 *)
(***************************************************************************)
EXTENDS Integers, Sequences, FiniteSets, TLC

VARIABLES
    \* ---- ImageMatcher.normalize_filename
    filename,        \* the argument of the first call
    normalized,      \* what the first call returned
    renormalized,    \* what a second call, on the first result, returned
    pcNorm,          \* "start" | "once" | "twice"
    \* ---- ImageMatcher.find_matching_media
    webp_name,       \* webp_file.name
    media_items,     \* the remote assets, in listing order
    matching_media,  \* the returned asset, or None
    pcMatch,         \* "start" | "done"
    \* ---- ImageMatcher.extract_url_patterns
    media_item,      \* the asset whose URLs are extracted
    urls,            \* the returned list
    pcUrls,          \* "start" | "done"
    \* ---- ContentUpdater.find_and_replace_urls
    content,         \* the text
    old_urls,        \* the URLs to replace, in order
    new_url,         \* the replacement
    replaced,        \* the outcome: the returned (text, count), or raised
    pcRepl,          \* "start" | "done"
    \* ---- ContentUpdater.find_content_with_urls
    posts_and_pages, \* the items searched
    search_urls,     \* the URLs searched for
    matching_content,\* the returned items
    pcFind,          \* "start" | "done"
    \* ---- ContentUpdater.update_content_items
    content_items,   \* the items to update
    upd_old_urls,    \* old_urls of the call
    upd_new_url,     \* new_url of the call
    content_type,    \* "post" | "page"
    api_calls,       \* the update requests issued, in order
    results,         \* the returned result records
    pcUpd,           \* "start" | "done" | "raised"
    \* ---- WordPressAPI.get_media_items / get_posts / get_pages
    endpoint,        \* "media" | "posts" | "pages"
    server,          \* how the server answers
    page,            \* the page requested next
    all_items,       \* all_media / all_posts / all_pages
    requested,       \* the page numbers requested so far
    pcList,          \* "loop" | "done" | "raised"
    \* ---- WordPressAPI.upload_media / update_post / update_page
    api_method,      \* the method called
    file_state,      \* upload_media: the local file, "ok" | "missing" | "unreadable"
    post_id,         \* update_post / update_page: the item's id
    post_content,    \* update_post / update_page: the new content
    api_response,    \* how the server answers the request
    api_requests,    \* the requests issued, in order
    uploaded_media,  \* what upload_media returned
    updated,         \* what update_post / update_page returned
    pcApi,           \* "start" | "done" | "raised"
    \* ---- WordPressAPI.test_connection
    discovery,       \* how the server answers GET /wp-json/
    identity,        \* how the server answers GET /wp-json/wp/v2/users/me
    conn_requests,   \* the requests sent, in order
    conn_result,     \* the returned (success, message)
    pcConn,          \* "discovery" | "identity" | "done" | "raised"
    \* ---- WordPressAPI.run_diagnostics
    site_scheme,     \* how self.site_url starts: "https://" | "http://"
    diag_api,        \* how the server answers GET /wp-json/
    diag_posts,      \* how the server answers GET /wp-json/wp/v2/posts
    diag_auth,       \* how the server answers GET /wp-json/wp/v2/users/me
    diag_results,    \* results: tests, overall_status, recommendations
    pcDiag,          \* "test1" .. "test5" | "done" | "raised"
    \* ---- the replacement run (src/main.py): start_replacement,
    \* ---- stop_replacement, run_replacement, finish_replacement
    running,         \* self.running, the flag the worker thread polls
    start_button,    \* the Start button's state, "normal" | "disabled"
    stop_button,     \* the Stop button's state
    folder,          \* the .webp files of the chosen folder, in glob order
    site,            \* the remote site: media, posts, pages, uploads so far
    locals,          \* the local variables of run_replacement
    events,          \* the requests sent and the lines logged, in order
    stops,           \* how often Stop was clicked
    pcRun,           \* where the worker thread is
    \* ---- the front-end thread and the worker threads (src/main.py)
    ui_running,      \* self.running, shared by all threads
    ui_start_button, \* the Start button's state, "normal" | "disabled"
    ui_stop_button,  \* the Stop button's state
    pcMain,          \* the front-end thread: "mainloop" | "start_replacement"
    threads,         \* the worker threads: where each is in run_replacement
    started,         \* how many worker threads were started
    clicks,          \* how often Stop was clicked
    history          \* what happened: stops during a run, reports, clearings

normVars  == <<filename, normalized, renormalized, pcNorm>>
matchVars == <<webp_name, media_items, matching_media, pcMatch>>
urlsVars  == <<media_item, urls, pcUrls>>
replVars  == <<content, old_urls, new_url, replaced, pcRepl>>
findVars  == <<posts_and_pages, search_urls, matching_content, pcFind>>
updVars   == <<content_items, upd_old_urls, upd_new_url, content_type,
               api_calls, results, pcUpd>>
listVars  == <<endpoint, server, page, all_items, requested, pcList>>
apiVars   == <<api_method, file_state, post_id, post_content, api_response,
               api_requests, uploaded_media, updated, pcApi>>
connVars  == <<discovery, identity, conn_requests, conn_result, pcConn>>
diagVars  == <<site_scheme, diag_api, diag_posts, diag_auth, diag_results,
               pcDiag>>
runVars   == <<running, start_button, stop_button, folder, site, locals,
               events, stops, pcRun>>
thrVars   == <<ui_running, ui_start_button, ui_stop_button, pcMain, threads,
               started, clicks, history>>

vars == <<normVars, matchVars, urlsVars, replVars, findVars, updVars,
          listVars, apiVars, connVars, diagVars, runVars, thrVars>>

(***************************************************************************)
(* Bounds of the model.                                                    *)
(***************************************************************************)
MaxSegs  == 3    \* a file name is built from at most this many segments
MaxMedia == 2    \* remote assets in a listing
MaxSizes == 2    \* size variants of one asset
MaxText  == 3    \* characters of a text searched for URLs
MaxOld   == 2    \* old URLs of one replacement call
MaxItems == 2    \* text items of one search or update call
MaxUrls  == 2    \* URLs of one search call
MaxPages == 3    \* non-empty pages the server holds
PerPage  == 2    \* items on a full page
MaxFiles == 2    \* local files of a run
MaxStops == 1    \* clicks on Stop during a run
MaxWorkers == 3  \* worker threads started

\* Python's None where a string is expected, and the value of a key a
\* dictionary lacks (no string of the model has these characters).
None    == <<"<None>">>
Missing == <<"<missing>">>

(***************************************************************************)
(* Strings.                                                                *)
(***************************************************************************)
Digits == {"0", "1", "2", "3", "4", "5", "6", "7", "8", "9"}

\* str.lower() on one character (the letters the model's inputs use).
LowerChar(c) ==
    CASE c = "A" -> "a" [] c = "B" -> "b" [] c = "C" -> "c" [] c = "D" -> "d"
      [] c = "E" -> "e" [] c = "G" -> "g" [] c = "L" -> "l" [] c = "N" -> "n"
      [] c = "P" -> "p" [] c = "S" -> "s" [] c = "X" -> "x"
      [] OTHER -> c

\* str.lower()
Lower(s) == [i \in 1..Len(s) |-> LowerChar(s[i])]

\* s[i:] from the 1-based position i
From(s, i) == SubSeq(s, i, Len(s))

\* str.endswith(t)
EndsWith(s, t) ==
    /\ Len(t) <= Len(s)
    /\ SubSeq(s, Len(s) - Len(t) + 1, Len(s)) = t

\* whether t occurs in s at position i
MatchAt(s, t, i) ==
    /\ i >= 1
    /\ i + Len(t) - 1 <= Len(s)
    /\ SubSeq(s, i, i + Len(t) - 1) = t

\* str.rfind(c) for one character, 1-based; 0 when c does not occur
RFind(s, c) ==
    LET at == {i \in 1..Len(s) : s[i] = c}
    IN  IF at = {} THEN 0 ELSE CHOOSE i \in at : \A j \in at : j <= i

(***************************************************************************)
(* pathlib: the name and the stem of a path.                               *)
(***************************************************************************)
\* The components of a path: split at "/", the empty and the "." ones dropped.
RECURSIVE PathParts(_, _, _)
PathParts(s, i, cur) ==
    LET keep(c) == IF c = <<>> \/ c = <<".">> THEN <<>> ELSE <<c>>
    IN  IF i > Len(s) THEN keep(cur)
        ELSE IF s[i] = "/" THEN keep(cur) \o PathParts(s, i + 1, <<>>)
        ELSE PathParts(s, i + 1, Append(cur, s[i]))

\* Path(s).name: the last component, "" when there is none
PathName(s) ==
    LET parts == PathParts(s, 1, <<>>)
    IN  IF parts = <<>> THEN <<>> ELSE parts[Len(parts)]

\* Path(s).stem: the name without its last suffix; a leading dot or a
\* trailing dot starts no suffix.
PathStem(s) ==
    LET name == PathName(s)
        i    == RFind(name, ".")
    IN  IF 1 < i /\ i < Len(name) THEN SubSeq(name, 1, i - 1) ELSE name

(***************************************************************************)
(* re.sub(r"-\d+x\d+$", "", name) and re.sub(r"-scaled$", "", name)        *)
(***************************************************************************)
\* whether t, as a whole, matches -\d+x\d+
IsSizeSuffix(t) ==
    /\ Len(t) >= 4
    /\ t[1] = "-"
    /\ \E k \in 3..(Len(t) - 1) :
          /\ t[k] = "x"
          /\ \A j \in 2..(k - 1) : t[j] \in Digits
          /\ \A j \in (k + 1)..Len(t) : t[j] \in Digits

\* The leftmost match of a pattern anchored at the end is removed.
StripSizeSuffix(name) ==
    LET at == {i \in 1..Len(name) : IsSizeSuffix(From(name, i))}
    IN  IF at = {} THEN name
        ELSE SubSeq(name, 1, (CHOOSE i \in at : \A j \in at : i <= j) - 1)

ScaledSuffix == <<"-", "s", "c", "a", "l", "e", "d">>

StripScaledSuffix(name) ==
    IF EndsWith(name, ScaledSuffix)
    THEN SubSeq(name, 1, Len(name) - Len(ScaledSuffix))
    ELSE name

(***************************************************************************)
(* ImageMatcher.normalize_filename                                         *)
(***************************************************************************)
\* The two re.sub calls the other way round: -scaled first, then the size.
NormalizeScaledFirst(name) ==
    Lower(StripSizeSuffix(StripScaledSuffix(PathStem(name))))

NormalizeFilename(name) ==
    Lower(StripScaledSuffix(StripSizeSuffix(PathStem(name))))

\* The pieces file names are built from.
Segs ==
    { <<"a">>, <<"1">>, <<".", "a">>,
      <<".", "p", "n", "g">>,
      <<"-", "1", "x", "1">>,
      <<"-", "2", "X", "3">>,
      <<"-", "s", "c", "a", "l", "e", "d">>,
      <<"-", "S", "C", "A", "L", "E", "D">> }

RECURSIVE Concats(_, _)
Concats(S, k) ==
    IF k = 0 THEN {<<>>}
    ELSE LET prev == Concats(S, k - 1)
         IN  prev \cup {p \o x : p \in prev, x \in S}

FileNames == Concats(Segs, MaxSegs)

InitNormalizeUnit ==
    /\ filename \in FileNames
    /\ normalized = None
    /\ renormalized = None
    /\ pcNorm = "start"

IdleNormalize ==
    /\ filename = <<>>
    /\ normalized = None
    /\ renormalized = None
    /\ pcNorm = "idle"

\* normalize_filename(filename)
Normalize ==
    /\ pcNorm = "start"
    /\ normalized' = NormalizeFilename(filename)
    /\ pcNorm' = "once"
    /\ UNCHANGED <<filename, renormalized>>

\* normalize_filename applied to its own result
NormalizeAgain ==
    /\ pcNorm = "once"
    /\ renormalized' = NormalizeFilename(normalized)
    /\ pcNorm' = "twice"
    /\ UNCHANGED <<filename, normalized>>

(***************************************************************************)
(* ImageMatcher.find_matching_media                                        *)
(***************************************************************************)
\* dict.get(key, default) on a string-valued key
Get(value, default) == IF value = Missing THEN default ELSE value

PngSuffix == <<".", "p", "n", "g">>

\* The value find_matching_media returns when the loop ends: None.
NoMedia == [id |-> 0, source_url |-> None]

\* The loop body's test: a PNG whose normalized name is the local one.
MediaMatches(webp_normalized, media) ==
    LET source_url     == Get(media.source_url, <<>>)
        media_filename == PathName(source_url)
    IN  /\ EndsWith(Lower(media_filename), PngSuffix)
        /\ NormalizeFilename(media_filename) = webp_normalized

\* for media in media_items, from position i on
RECURSIVE MatchFrom(_, _, _)
MatchFrom(webp_normalized, items, i) ==
    IF i > Len(items) THEN NoMedia
    ELSE IF MediaMatches(webp_normalized, items[i]) THEN items[i]
    ELSE MatchFrom(webp_normalized, items, i + 1)

\* The scan from the end of the list: the last match instead of the first.
RECURSIVE MatchBackFrom(_, _, _)
MatchBackFrom(webp_normalized, items, i) ==
    IF i < 1 THEN NoMedia
    ELSE IF MediaMatches(webp_normalized, items[i]) THEN items[i]
    ELSE MatchBackFrom(webp_normalized, items, i - 1)

FindMatchingMediaLast(name, items) ==
    MatchBackFrom(NormalizeFilename(name), items, Len(items))

FindMatchingMedia(name, items) ==
    MatchFrom(NormalizeFilename(name), items, 1)

WebpSuffix == <<".", "w", "e", "b", "p">>

\* webp_file.name of the local files
LocalNames ==
    { s \o WebpSuffix :
        s \in { <<"a">>, <<"A">>, <<"1">>,
                <<"a", "-", "s", "c", "a", "l", "e", "d">> } }

\* source_url of the remote assets: a directory and a file name, the key
\* missing, or an empty string
MediaStems ==
    { <<"a">>, <<"1">>, <<"A", "-", "1", "x", "1">>,
      <<"a", "-", "s", "c", "a", "l", "e", "d">> }

MediaSuffixes == { PngSuffix, <<".", "P", "N", "G">>, WebpSuffix }

SourceUrls ==
    { <<"u", "/">> \o s \o e : s \in MediaStems, e \in MediaSuffixes }
        \cup { <<"u", "/", "a", ".", "p", "n", "g", "/">>, <<>>, Missing }

\* Lists of at most n elements of S
RECURSIVE SeqsUpTo(_, _)
SeqsUpTo(S, n) ==
    IF n = 0 THEN {<<>>}
    ELSE LET prev == SeqsUpTo(S, n - 1)
         IN  prev \cup {Append(q, x) : q \in prev, x \in S}

\* A listing: the i-th asset has id i.
MediaLists ==
    { [i \in 1..Len(q) |-> [id |-> i, source_url |-> q[i]]] :
        q \in SeqsUpTo(SourceUrls, MaxMedia) }

InitMatchUnit ==
    /\ webp_name \in LocalNames
    /\ media_items \in MediaLists
    /\ matching_media = NoMedia
    /\ pcMatch = "start"

IdleMatch ==
    /\ webp_name = <<>>
    /\ media_items = <<>>
    /\ matching_media = NoMedia
    /\ pcMatch = "idle"

\* find_matching_media(webp_file, media_items)
FindMatch ==
    /\ pcMatch = "start"
    /\ matching_media' = FindMatchingMedia(webp_name, media_items)
    /\ pcMatch' = "done"
    /\ UNCHANGED <<webp_name, media_items>>

(***************************************************************************)
(* ImageMatcher.extract_url_patterns                                       *)
(***************************************************************************)
\* Python's truth of an optional string: None, a missing key and "" are false
Truthy(u) == u # Missing /\ u # None /\ u # <<>>

\* for size_name, size_data in sizes.items(), from position i on
RECURSIVE SizeUrlsFrom(_, _)
SizeUrlsFrom(sizes, i) ==
    IF i > Len(sizes) THEN <<>>
    ELSE (IF Truthy(sizes[i].source_url) THEN <<sizes[i].source_url>> ELSE <<>>)
             \o SizeUrlsFrom(sizes, i + 1)

\* The variant reading of the code: nothing without a canonical URL.
ExtractNothingWithoutCanonical(item) ==
    IF Truthy(item.source_url)
    THEN <<item.source_url>> \o SizeUrlsFrom(item.sizes, 1)
    ELSE <<>>

ExtractUrlPatterns(item) ==
    (IF Truthy(item.source_url) THEN <<item.source_url>> ELSE <<>>)
        \o SizeUrlsFrom(item.sizes, 1)

\* URLs are opaque here: only their presence and order matter.
CanonicalUrls == { <<"U", "1">>, <<>>, None, Missing }
VariantUrls   == { <<"U", "2">>, <<"U", "3">>, <<>>, Missing }

\* media_details.sizes in mapping order (a missing media_details or sizes
\* key reads as the empty mapping)
SizeLists ==
    { [i \in 1..Len(q) |-> [source_url |-> q[i]]] :
        q \in SeqsUpTo(VariantUrls, MaxSizes) }

InitUrlsUnit ==
    /\ media_item \in [source_url : CanonicalUrls, sizes : SizeLists]
    /\ urls = <<>>
    /\ pcUrls = "start"

IdleUrls ==
    /\ media_item = [source_url |-> Missing, sizes |-> <<>>]
    /\ urls = <<>>
    /\ pcUrls = "idle"

\* extract_url_patterns(media_item)
ExtractUrls ==
    /\ pcUrls = "start"
    /\ urls' = ExtractUrlPatterns(media_item)
    /\ pcUrls' = "done"
    /\ UNCHANGED media_item

(***************************************************************************)
(* re: counting and replacing the matches of an escaped (literal) pattern, *)
(* and the expansion of a replacement template.                            *)
(***************************************************************************)
\* After a match at i the scan resumes behind it; behind an empty match it
\* resumes one character further.
AfterMatch(pat, i) == IF pat = <<>> THEN i + 1 ELSE i + Len(pat)

\* len(re.findall(re.escape(pat), text)), scanning from position i
RECURSIVE CountFrom(_, _, _)
CountFrom(text, pat, i) ==
    IF i > Len(text) + 1 THEN 0
    ELSE IF MatchAt(text, pat, i) THEN 1 + CountFrom(text, pat, AfterMatch(pat, i))
    ELSE CountFrom(text, pat, i + 1)

\* re.sub(re.escape(pat), ..., text) with the expanded replacement repl,
\* scanning from position i
RECURSIVE SubFrom(_, _, _, _)
SubFrom(text, pat, repl, i) ==
    LET char == IF i <= Len(text) THEN <<text[i]>> ELSE <<>>
    IN  IF i > Len(text) + 1 THEN <<>>
        ELSE IF MatchAt(text, pat, i)
        THEN repl \o (IF pat = <<>> THEN char ELSE <<>>)
                  \o SubFrom(text, pat, repl, AfterMatch(pat, i))
        ELSE char \o SubFrom(text, pat, repl, i + 1)

AsciiLetters ==
    { "a", "b", "c", "d", "e", "f", "g", "h", "i", "j", "k", "l", "m", "n",
      "o", "p", "q", "r", "s", "t", "u", "v", "w", "x", "y", "z",
      "A", "B", "C", "D", "E", "F", "G", "H", "I", "J", "K", "L", "M", "N",
      "O", "P", "Q", "R", "S", "T", "U", "V", "W", "X", "Y", "Z" }

\* The escapes a replacement template knows: the control character each
\* stands for (a character no text of the model holds); a backslash stands
\* for itself.
EscapeLetters == {"a", "b", "f", "n", "r", "t", "v", "\\"}
Escaped(c) == IF c = "\\" THEN "\\" ELSE "<\\" \o c \o ">"

\* re.sub's reading of the replacement string: a backslash escape is
\* expanded, an unknown letter escape or a backslash at the end is an error
\* (re.error); a backslash before any other character stays.  The model's
\* replacement strings hold no digit and no "g" behind a backslash (group
\* references).
RECURSIVE ExpandFrom(_, _)
ExpandFrom(repl, i) ==
    IF i > Len(repl) THEN [ok |-> TRUE, text |-> <<>>]
    ELSE IF repl[i] # "\\"
    THEN LET rest == ExpandFrom(repl, i + 1)
         IN  [ok |-> rest.ok, text |-> <<repl[i]>> \o rest.text]
    ELSE IF i = Len(repl) THEN [ok |-> FALSE, text |-> <<>>]
    ELSE LET c    == repl[i + 1]
             rest == ExpandFrom(repl, i + 2)
         IN  IF c \in EscapeLetters
             THEN [ok |-> rest.ok, text |-> <<Escaped(c)>> \o rest.text]
             ELSE IF c \in AsciiLetters THEN [ok |-> FALSE, text |-> <<>>]
             ELSE [ok |-> rest.ok, text |-> <<"\\", c>> \o rest.text]

ExpandTemplate(repl) == ExpandFrom(repl, 1)

(***************************************************************************)
(* ContentUpdater.find_and_replace_urls                                    *)
(***************************************************************************)
\* for old_url in old_urls, from position i on, with the running
\* updated_content and total_replacements.  re.sub is called, and the
\* template read, only when the URL occurs.
RECURSIVE ReplaceFrom(_, _, _, _, _)
ReplaceFrom(updated_content, total_replacements, olds, new, i) ==
    IF i > Len(olds)
    THEN [raised |-> FALSE, text |-> updated_content,
          count |-> total_replacements]
    ELSE LET count == CountFrom(updated_content, olds[i], 1)
             repl  == ExpandTemplate(new)
         IN  IF count = 0
             THEN ReplaceFrom(updated_content, total_replacements, olds, new, i + 1)
             ELSE IF ~repl.ok
             THEN [raised |-> TRUE, text |-> updated_content,
                   count |-> total_replacements]
             ELSE ReplaceFrom(SubFrom(updated_content, olds[i], repl.text, 1),
                              total_replacements + count, olds, new, i + 1)

\* Every URL counted in the text as given, before any replacement.
RECURSIVE CountInOriginal(_, _, _)
CountInOriginal(text, olds, i) ==
    IF i > Len(olds) THEN 0
    ELSE CountFrom(text, olds[i], 1) + CountInOriginal(text, olds, i + 1)

FindAndReplaceCountingOriginal(text, olds, new) ==
    LET r == ReplaceFrom(text, 0, olds, new, 1)
    IN  [r EXCEPT !.count = IF r.raised THEN r.count
                            ELSE CountInOriginal(text, olds, 1)]

FindAndReplaceUrls(text, olds, new) == ReplaceFrom(text, 0, olds, new, 1)

Texts == SeqsUpTo({"a", "b", "c"}, MaxText)

OldUrlSet == { <<"a", "b">>, <<"b", "c">>, <<"c", "b">>, <<"b">> }

NewUrls ==
    { <<"c">>, <<"c", "a">>,
      <<"\\", "n">>,       \* backslash n
      <<"\\", "\\">>,      \* two backslashes
      <<"\\", "c">>,       \* backslash c
      <<"c", "\\">> }      \* a backslash at the end

NoOutcome == [raised |-> FALSE, text |-> <<>>, count |-> 0]

InitReplaceUnit ==
    /\ content \in Texts
    /\ old_urls \in SeqsUpTo(OldUrlSet, MaxOld)
    /\ new_url \in NewUrls
    /\ replaced = NoOutcome
    /\ pcRepl = "start"

IdleReplace ==
    /\ content = <<>>
    /\ old_urls = <<>>
    /\ new_url = <<>>
    /\ replaced = NoOutcome
    /\ pcRepl = "idle"

\* find_and_replace_urls(content, old_urls, new_url)
FindAndReplace ==
    /\ pcRepl = "start"
    /\ replaced' = FindAndReplaceUrls(content, old_urls, new_url)
    /\ pcRepl' = "done"
    /\ UNCHANGED <<content, old_urls, new_url>>

(***************************************************************************)
(* ContentUpdater.find_content_with_urls                                   *)
(***************************************************************************)
\* url in text
Contains(text, url) == \E i \in 1..(Len(text) + 1) : MatchAt(text, url, i)

\* An item's content is a dictionary with (or without) a "rendered" key,
\* or a plain string; an item without a "content" key reads as the empty
\* dictionary.
ContentHtml(item) ==
    IF item.content.isdict
    THEN Get(item.content.value, <<>>)
    ELSE item.content.value

\* for url in urls, from position j on: whether one of them is in the text
RECURSIVE AnyUrlFrom(_, _, _)
AnyUrlFrom(content_html, searched, j) ==
    IF j > Len(searched) THEN FALSE
    ELSE IF Contains(content_html, searched[j]) THEN TRUE
    ELSE AnyUrlFrom(content_html, searched, j + 1)

\* for item in posts_and_pages, from position i on
RECURSIVE FindFrom(_, _, _)
FindFrom(items, searched, i) ==
    IF i > Len(items) THEN <<>>
    ELSE (IF AnyUrlFrom(ContentHtml(items[i]), searched, 1)
          THEN <<items[i]>> ELSE <<>>)
             \o FindFrom(items, searched, i + 1)

\* The inner loop without its break: the item is appended once per URL.
RECURSIVE AppendPerUrlFrom(_, _, _)
AppendPerUrlFrom(item, searched, j) ==
    IF j > Len(searched) THEN <<>>
    ELSE (IF Contains(ContentHtml(item), searched[j]) THEN <<item>> ELSE <<>>)
             \o AppendPerUrlFrom(item, searched, j + 1)

RECURSIVE FindNoBreakFrom(_, _, _)
FindNoBreakFrom(items, searched, i) ==
    IF i > Len(items) THEN <<>>
    ELSE AppendPerUrlFrom(items[i], searched, 1)
             \o FindNoBreakFrom(items, searched, i + 1)

FindContentWithoutBreak(items, searched) == FindNoBreakFrom(items, searched, 1)

FindContentWithUrls(items, searched) == FindFrom(items, searched, 1)

Bodies == { <<>>, <<"a", "b">>, <<"b", "c">>, <<"a", "b", "c">> }

Contents ==
    [isdict : {TRUE}, value : Bodies \cup {Missing}]
        \cup [isdict : {FALSE}, value : Bodies]

Titles == { [isdict |-> TRUE, value |-> <<"t">>],
            [isdict |-> TRUE, value |-> Missing] }

\* Text items: the i-th has id i.
ItemLists(C, T) ==
    { [i \in 1..Len(q) |-> [id |-> i, title |-> q[i][1], content |-> q[i][2]]] :
        q \in SeqsUpTo(T \X C, MaxItems) }

SearchUrlSet == { <<"a", "b">>, <<"b", "c">>, <<"c", "c">> }

InitFindUnit ==
    /\ posts_and_pages \in ItemLists(Contents, {[isdict |-> TRUE, value |-> <<"t">>]})
    /\ search_urls \in SeqsUpTo(SearchUrlSet, MaxUrls)
    /\ matching_content = <<>>
    /\ pcFind = "start"

IdleFind ==
    /\ posts_and_pages = <<>>
    /\ search_urls = <<>>
    /\ matching_content = <<>>
    /\ pcFind = "idle"

\* find_content_with_urls(posts_and_pages, urls)
FindContent ==
    /\ pcFind = "start"
    /\ matching_content' = FindContentWithUrls(posts_and_pages, search_urls)
    /\ pcFind' = "done"
    /\ UNCHANGED <<posts_and_pages, search_urls>>

(***************************************************************************)
(* ContentUpdater.update_content_items, with WordPressAPI.update_post and  *)
(* update_page behind it                                                   *)
(***************************************************************************)
\* What the server does with one update request: a transport failure
\* (requests raises a RequestException) or a response with a status.
UpdateResponses ==
    { [failed |-> TRUE, status |-> 0],
      [failed |-> FALSE, status |-> 200],
      [failed |-> FALSE, status |-> 403] }

\* A variant that takes every 2xx status for a success
UpdateSucceededOnAny2xx(response) ==
    ~response.failed /\ response.status \in 200..299

\* update_post / update_page: True on status 200, False on any other
\* status and on a RequestException
UpdateSucceeded(response) == ~response.failed /\ response.status = 200

\* title.get("rendered", "Untitled") or str(title)
TitleText(item) ==
    IF item.title.isdict
    THEN Get(item.title.value, <<"Untitled">>)
    ELSE item.title.value

\* for item in content_items, from position i on; responses[i] is the
\* server's answer to the request for item i.  An exception raised by
\* find_and_replace_urls leaves the loop and the function: the requests
\* issued so far stay issued, nothing is returned.
RECURSIVE UpdateFrom(_, _, _, _, _, _)
UpdateFrom(items, olds, new, type, responses, i) ==
    IF i > Len(items)
    THEN [raised |-> FALSE, calls |-> <<>>, results |-> <<>>]
    ELSE LET item == items[i]
             r    == FindAndReplaceUrls(ContentHtml(item), olds, new)
             call == [op |-> IF type = "post" THEN "update_post" ELSE "update_page",
                      id |-> item.id, content |-> r.text]
             res  == [id |-> item.id, title |-> TitleText(item),
                      success |-> UpdateSucceeded(responses[i]),
                      replacements |-> r.count]
             rest == UpdateFrom(items, olds, new, type, responses, i + 1)
         IN  IF r.raised
             THEN [raised |-> TRUE, calls |-> <<>>, results |-> <<>>]
             ELSE [raised |-> rest.raised,
                   calls |-> <<call>> \o rest.calls,
                   results |-> <<res>> \o rest.results]

UpdateContentItems(items, olds, new, type, responses) ==
    UpdateFrom(items, olds, new, type, responses, 1)

UpdateBodies == { <<"a", "b">>, <<"c">> }

InitUpdateUnit ==
    /\ content_items \in
           ItemLists([isdict : {TRUE}, value : UpdateBodies] \cup
                         {[isdict |-> FALSE, value |-> <<"a", "b">>]},
                     Titles)
    /\ upd_old_urls \in { <<>>, << <<"a", "b">> >>, << <<"a", "b">>, <<"b">> >> }
    /\ upd_new_url \in { <<"c">>, <<"\\", "n">>, <<"\\", "c">> }
    /\ content_type \in {"post", "page"}
    /\ api_calls = <<>>
    /\ results = <<>>
    /\ pcUpd = "start"

IdleUpdate ==
    /\ content_items = <<>>
    /\ upd_old_urls = <<>>
    /\ upd_new_url = <<>>
    /\ content_type = "post"
    /\ api_calls = <<>>
    /\ results = <<>>
    /\ pcUpd = "idle"

\* update_content_items(api, content_items, old_urls, new_url, content_type)
UpdateItems ==
    /\ pcUpd = "start"
    /\ \E responses \in [1..Len(content_items) -> UpdateResponses] :
          LET out == UpdateContentItems(content_items, upd_old_urls, upd_new_url,
                                        content_type, responses)
          IN  /\ api_calls' = out.calls
              /\ results' = IF out.raised THEN <<>> ELSE out.results
              /\ pcUpd' = IF out.raised THEN "raised" ELSE "done"
    /\ UNCHANGED <<content_items, upd_old_urls, upd_new_url, content_type>>

(***************************************************************************)
(* WordPressAPI.get_media_items, get_posts, get_pages: the same loop on    *)
(* three endpoints                                                         *)
(***************************************************************************)
Endpoints == {"media", "posts", "pages"}

\* The items the server holds on page p of its npages pages.
PageItems(p) == [j \in 1..PerPage |-> <<p, j>>]

\* The pages 1..n concatenated
RECURSIVE PagesUpTo(_)
PagesUpTo(n) == IF n = 0 THEN <<>> ELSE PagesUpTo(n - 1) \o PageItems(n)

\* The server answers page p <= npages with status 200 and that page's
\* items, a later page with status 200 and an empty list; its
\* X-WP-TotalPages header is absent, the number of pages, or not a number.
\* At page failAt (if not 0) the request fails instead: no response
\* ("transport"), a status other than 200 ("status"), or a body that is
\* not JSON ("body").
Servers ==
    [npages : 0..MaxPages,
     header : {"absent", "accurate", "garbage"},
     failAt : {0}, failKind : {"none"}]
      \cup
    [npages : 0..MaxPages,
     header : {"absent", "accurate", "garbage"},
     failAt : 1..(MaxPages + 1), failKind : {"transport", "status", "body"}]

Response(srv, p) ==
    IF srv.failAt = p /\ srv.failKind = "transport"
    THEN [kind |-> "exception", status |-> 0, body |-> <<>>, header |-> "absent"]
    ELSE [kind   |-> IF srv.failAt = p /\ srv.failKind = "body"
                     THEN "notjson" ELSE "json",
          status |-> IF srv.failAt = p /\ srv.failKind = "status" THEN 500 ELSE 200,
          body   |-> IF p <= srv.npages THEN PageItems(p) ELSE <<>>,
          header |-> srv.header]

\* int(response.headers.get("X-WP-TotalPages", 1)); the header read here
\* is a number or absent
TotalPages(srv, response) ==
    IF response.header = "absent" THEN 1 ELSE srv.npages

InitListingUnit ==
    /\ endpoint \in Endpoints
    /\ server \in Servers
    /\ page = 1
    /\ all_items = <<>>
    /\ requested = <<>>
    /\ pcList = "loop"

IdleListing ==
    /\ endpoint = "media"
    /\ server = [npages |-> 0, header |-> "absent", failAt |-> 0, failKind |-> "none"]
    /\ page = 1
    /\ all_items = <<>>
    /\ requested = <<>>
    /\ pcList = "idle"

\* One turn of the while loop: the request for the current page and what
\* the code does with the answer.
\*  - a RequestException, a status other than 200, an empty page: break
\*  - a body that is not JSON: response.json() raises; requests from 2.27
\*    on raises a RequestException (caught: break), older ones a
\*    ValueError (not caught): either, depending on the installed library
\*  - a header that is not a number: int() raises ValueError, not caught
FetchPage ==
    /\ pcList = "loop"
    /\ LET response == Response(server, page)
       IN  /\ requested' = Append(requested, page)
           /\ \/ /\ response.kind = "exception"
                 /\ pcList' = "done"
                 /\ UNCHANGED <<page, all_items>>
              \/ /\ response.kind # "exception"
                 /\ response.status # 200
                 /\ pcList' = "done"
                 /\ UNCHANGED <<page, all_items>>
              \/ /\ response.kind = "notjson"
                 /\ response.status = 200
                 /\ pcList' \in {"done", "raised"}
                 /\ UNCHANGED <<page, all_items>>
              \/ /\ response.kind = "json"
                 /\ response.status = 200
                 /\ response.body = <<>>
                 /\ pcList' = "done"
                 /\ UNCHANGED <<page, all_items>>
              \/ /\ response.kind = "json"
                 /\ response.status = 200
                 /\ response.body # <<>>
                 /\ all_items' = all_items \o response.body
                 /\ IF response.header = "garbage"
                    THEN pcList' = "raised" /\ UNCHANGED page
                    ELSE IF page >= TotalPages(server, response)
                    THEN pcList' = "done" /\ UNCHANGED page
                    ELSE pcList' = "loop" /\ page' = page + 1
    /\ UNCHANGED <<endpoint, server>>

(***************************************************************************)
(* WordPressAPI.upload_media, update_post, update_page                     *)
(* (src/wordpress_api.py)                                                  *)
(***************************************************************************)
\* The status codes the server answers with
Statuses == {200, 201, 401, 403, 406, 500}

\* The source_url of a newly created asset
UploadedUrl == <<"n", ".", "w">>

\* The JSON objects a "created" answer carries: the new asset's record,
\* with or without its source_url
CreatedRecords ==
    { [id |-> 7, source_url |-> UploadedUrl],
      [id |-> 7, source_url |-> Missing] }

\* How the server answers one request: no answer at all (a
\* RequestException of the transport), or a status with a body that is a
\* JSON object or is not JSON
ApiResponses ==
    { [failed |-> TRUE, status |-> 0, json |-> "none", record |-> NoMedia] }
      \cup [failed : {FALSE}, status : Statuses, json : {"object"},
            record : CreatedRecords]
      \cup [failed : {FALSE}, status : Statuses, json : {"notjson"},
            record : {NoMedia}]

\* upload_media: what it returns (NoMedia for None), whether it raised,
\* and how many requests it sent.  open() of a missing file and reading an
\* unreadable one while the request body is built raise IOError before
\* anything is sent.  response.json() of a body that is not JSON raises
\* requests' JSONDecodeError, a RequestException (caught) from requests
\* 2.27 on and a plain ValueError (not caught) before: json_error_caught.
UploadMedia(file, response, json_error_caught) ==
    IF file # "ok"
    THEN [raised |-> FALSE, sent |-> 0, value |-> NoMedia]
    ELSE IF response.failed
    THEN [raised |-> FALSE, sent |-> 1, value |-> NoMedia]
    ELSE IF response.status = 201
    THEN IF response.json = "object"
         THEN [raised |-> FALSE, sent |-> 1, value |-> response.record]
         ELSE [raised |-> ~json_error_caught, sent |-> 1, value |-> NoMedia]
    ELSE [raised |-> FALSE, sent |-> 1, value |-> NoMedia]

InitApiUnit ==
    /\ api_method \in {"upload_media", "update_post", "update_page"}
    /\ file_state \in IF api_method = "upload_media"
                      THEN {"ok", "missing", "unreadable"} ELSE {"ok"}
    /\ post_id \in IF api_method = "upload_media" THEN {0} ELSE 1..2
    /\ post_content \in IF api_method = "upload_media"
                        THEN {<<>>} ELSE {<<"a">>, <<"n", ".", "w">>}
    /\ api_response \in ApiResponses
    /\ api_requests = <<>>
    /\ uploaded_media = NoMedia
    /\ updated = FALSE
    /\ pcApi = "start"

IdleApi ==
    /\ api_method = "upload_media"
    /\ file_state = "ok"
    /\ post_id = 0
    /\ post_content = <<>>
    /\ api_response = [failed |-> TRUE, status |-> 0, json |-> "none",
                       record |-> NoMedia]
    /\ api_requests = <<>>
    /\ uploaded_media = NoMedia
    /\ updated = FALSE
    /\ pcApi = "start"

\* upload_media(file_path)
CallUploadMedia ==
    /\ pcApi = "start"
    /\ api_method = "upload_media"
    /\ \E json_error_caught \in BOOLEAN :
         LET r == UploadMedia(file_state, api_response, json_error_caught)
         IN  /\ api_requests' =
                   IF r.sent = 1
                   THEN <<[endpoint |-> "media", id |-> 0, content |-> <<>>]>>
                   ELSE <<>>
             /\ uploaded_media' = r.value
             /\ pcApi' = IF r.raised THEN "raised" ELSE "done"
    /\ UNCHANGED <<api_method, file_state, post_id, post_content,
                   api_response, updated>>

\* update_post(post_id, content)
CallUpdatePost ==
    /\ pcApi = "start"
    /\ api_method = "update_post"
    /\ api_requests' = <<[endpoint |-> "posts", id |-> post_id,
                          content |-> post_content]>>
    /\ updated' = UpdateSucceeded(api_response)
    /\ pcApi' = "done"
    /\ UNCHANGED <<api_method, file_state, post_id, post_content,
                   api_response, uploaded_media>>

\* update_page(page_id, content)
CallUpdatePage ==
    /\ pcApi = "start"
    /\ api_method = "update_page"
    /\ api_requests' = <<[endpoint |-> "pages", id |-> post_id,
                          content |-> post_content]>>
    /\ updated' = UpdateSucceeded(api_response)
    /\ pcApi' = "done"
    /\ UNCHANGED <<api_method, file_state, post_id, post_content,
                   api_response, uploaded_media>>

(***************************************************************************)
(* WordPressAPI.test_connection (src/wordpress_api.py)                     *)
(***************************************************************************)
\* session.auth = (username, app_password): the session's credentials
SessionAuth == "basic"

\* How requests settles the auth of one request: the setting of the call,
\* unless that is None, and then the session's (requests.sessions
\* merge_setting, used by Session.prepare_request)
MergeSetting(request_setting, session_setting) ==
    IF session_setting = "none" THEN request_setting
    ELSE IF request_setting = "none" THEN session_setting
    ELSE request_setting

\* The request that session.get(path, auth = request_auth) sends
SessionGet(path, request_auth) ==
    [path |-> path, auth |-> MergeSetting(request_auth, SessionAuth)]

\* response.reason
Reason(status) ==
    CASE status = 200 -> "OK"
      [] status = 201 -> "Created"
      [] status = 401 -> "Unauthorized"
      [] status = 403 -> "Forbidden"
      [] status = 406 -> "Not Acceptable"
      [] OTHER        -> "Internal Server Error"

\* str(e) of a RequestException
TransportErrors == {"timed out", "connection refused"}

\* The answers to the discovery call: a RequestException, or a status
DiscoveryAnswers ==
    [failed : {TRUE}, status : {0}, error : TransportErrors]
      \cup [failed : {FALSE}, status : Statuses, error : {""}]

\* The answers to the identity call: a RequestException, or a status with
\* a body that is a JSON object (with or without "name" and "message"), a
\* JSON value of another type, or not JSON
IdentityAnswers ==
    [failed : {TRUE}, status : {0}, error : TransportErrors,
     json : {"none"}, name : {"<missing>"}]
      \cup [failed : {FALSE}, status : Statuses, error : {""},
            json : {"object"}, name : {"admin", "<missing>"}]
      \cup [failed : {FALSE}, status : Statuses, error : {""},
            json : {"notobject", "notjson"}, name : {"<missing>"}]

\* The messages, by the text around the interpolated values
Message(text, status, detail) ==
    [text |-> text, status |-> status, detail |-> detail]

NoResult == [success |-> FALSE, message |-> Message("", 0, "")]

\* lines 33-45: the result the discovery call ends with, if it ends there
DiscoveryFailure(answer) ==
    IF answer.failed
    THEN [success |-> FALSE,
          message |-> Message("Cannot reach WordPress site: {e}",
                              0, answer.error)]
    ELSE [success |-> FALSE,
          message |-> Message("REST API not accessible (status {status}). Check if REST API is enabled.",
                              answer.status, "")]

\* lines 48-75: the outcome of the identity call.  On 200 response.json()
\* raises for a body that is not JSON (caught as a RequestException from
\* requests 2.27 on, a plain ValueError before: json_error_caught), and
\* user_data.get raises AttributeError for JSON that is not an object; on
\* 406 the bare except swallows both.
IdentityOutcome(answer, json_error_caught) ==
    IF answer.failed
    THEN [raised |-> FALSE, success |-> FALSE,
          message |-> Message("Connection error: {e}", 0, answer.error)]
    ELSE IF answer.status = 200
    THEN CASE answer.json = "object" ->
                [raised |-> FALSE, success |-> TRUE,
                 message |-> Message("Connection successful! Logged in as: {username}",
                                     0,
                                     IF answer.name = "<missing>"
                                     THEN "Unknown" ELSE answer.name)]
           [] answer.json = "notobject" ->
                [raised |-> TRUE, success |-> FALSE,
                 message |-> Message("", 0, "")]
           [] OTHER ->
                IF json_error_caught
                THEN [raised |-> FALSE, success |-> FALSE,
                      message |-> Message("Connection error: {e}", 0,
                                          "not JSON")]
                ELSE [raised |-> TRUE, success |-> FALSE,
                      message |-> Message("", 0, "")]
    ELSE IF answer.status = 406
    THEN [raised |-> FALSE, success |-> FALSE,
          message |-> Message("Authentication failed: 406 Not Acceptable{error_detail} ...",
                              0,
                              IF answer.json = "object" THEN " - " ELSE "")]
    ELSE [raised |-> FALSE, success |-> FALSE,
          message |-> Message("Authentication failed: {status} - {reason}",
                              answer.status, Reason(answer.status))]

InitConnUnit ==
    /\ discovery \in DiscoveryAnswers
    /\ identity \in IdentityAnswers
    /\ conn_requests = <<>>
    /\ conn_result = NoResult
    /\ pcConn = "discovery"

IdleConn ==
    /\ discovery = [failed |-> TRUE, status |-> 0, error |-> "timed out"]
    /\ identity = [failed |-> TRUE, status |-> 0, error |-> "timed out",
                   json |-> "none", name |-> "<missing>"]
    /\ conn_requests = <<>>
    /\ conn_result = NoResult
    /\ pcConn = "discovery"

\* lines 33-45: the discovery call
CheckRestApi ==
    /\ pcConn = "discovery"
    /\ conn_requests' = Append(conn_requests, SessionGet("/wp-json/", "none"))
    /\ IF discovery.failed \/ discovery.status # 200
       THEN /\ conn_result' = DiscoveryFailure(discovery)
            /\ pcConn' = "done"
       ELSE /\ pcConn' = "identity"
            /\ UNCHANGED conn_result
    /\ UNCHANGED <<discovery, identity>>

\* lines 48-75: the identity call
CheckAuthentication ==
    /\ pcConn = "identity"
    /\ conn_requests' =
           Append(conn_requests,
                  SessionGet("/wp-json/wp/v2/users/me", SessionAuth))
    /\ \E json_error_caught \in BOOLEAN :
         LET o == IdentityOutcome(identity, json_error_caught)
         IN  /\ conn_result' = [success |-> o.success, message |-> o.message]
             /\ pcConn' = IF o.raised THEN "raised" ELSE "done"
    /\ UNCHANGED <<discovery, identity>>

(***************************************************************************)
(* WordPressAPI.run_diagnostics (src/wordpress_api.py)                     *)
(***************************************************************************)
Test(name, status, message) ==
    [name |-> name, status |-> status, message |-> message]

\* line 84
EmptyResults ==
    [tests |-> <<>>, overall_status |-> "unknown", recommendations |-> <<>>]

\* lines 87-107: test 1 and its recommendations
RestApiTest(answer) ==
    IF answer.failed
    THEN [test |-> Test("REST API Availability", "fail",
                        Message("Cannot reach site: {e}", 0, answer.error)),
          recommendations |->
              <<"Check that the WordPress URL is correct and the site is online">>]
    ELSE IF answer.status = 200
    THEN [test |-> Test("REST API Availability", "pass",
                        Message("REST API is accessible", 0, "")),
          recommendations |-> <<>>]
    ELSE [test |-> Test("REST API Availability", "fail",
                        Message("REST API returned status {status}",
                                answer.status, "")),
          recommendations |->
              <<"Contact your hosting provider - REST API may be disabled">>]

\* lines 110-124: test 2 and its recommendations
PublicPostsTest(answer) ==
    IF answer.failed
    THEN [test |-> Test("Public Posts Endpoint", "fail",
                        Message("Error: {e}", 0, answer.error)),
          recommendations |-> <<>>]
    ELSE [test |-> Test("Public Posts Endpoint",
                        IF answer.status = 200 THEN "pass" ELSE "warning",
                        Message("Status {status}", answer.status, "")),
          recommendations |->
              IF answer.status # 200
              THEN <<"Posts endpoint not accessible - may indicate REST API restrictions">>
              ELSE <<>>]

\* lines 127-137: test 3 and its recommendations
HttpsTest(scheme) ==
    IF scheme = "https://"
    THEN [test |-> Test("HTTPS Enabled", "pass",
                        Message("Site uses HTTPS (required for Application Passwords)",
                                0, "")),
          recommendations |-> <<>>]
    ELSE [test |-> Test("HTTPS Enabled", "fail",
                        Message("Site uses HTTP - Application Passwords require HTTPS",
                                0, "")),
          recommendations |-> <<"Enable SSL certificate on your hosting account. ...">>]

\* lines 140-186: test 4 and its recommendations.  On 200 the status is
\* set to "pass" before response.json() and user_data.get run; what they
\* raise is handled as in test_connection (line 183 catches a
\* RequestException only).
AuthenticationTest(answer, json_error_caught) ==
    LET failure(message, recommendations) ==
            [raised |-> FALSE,
             test |-> Test("Authentication", "fail", message),
             recommendations |-> recommendations]
        raise == [raised |-> TRUE,
                  test |-> Test("Authentication", "pass", Message("", 0, "")),
                  recommendations |-> <<>>]
    IN
    IF answer.failed
    THEN failure(Message("Connection error: {e}", 0, answer.error), <<>>)
    ELSE CASE answer.status = 200 ->
                CASE answer.json = "object" ->
                       [raised |-> FALSE,
                        test |-> Test("Authentication", "pass",
                                      Message("Authenticated as: {username}", 0,
                                              IF answer.name = "<missing>"
                                              THEN "Unknown" ELSE answer.name)),
                        recommendations |-> <<>>]
                  [] answer.json = "notobject" -> raise
                  [] OTHER ->
                       IF json_error_caught
                       THEN failure(Message("Connection error: {e}", 0,
                                            "not JSON"), <<>>)
                       ELSE raise
           [] answer.status = 401 ->
                failure(Message("401 Unauthorized - Invalid credentials", 0, ""),
                        <<"Verify your WordPress username is correct (not email address)",
                          "Regenerate your Application Password and try again",
                          "Make sure you copied the password without spaces">>)
           [] answer.status = 406 ->
                failure(Message("406 Not Acceptable - Server blocking request",
                                0, ""),
                        <<"mod_security or hosting firewall is blocking the request",
                          "FIX #1: Go to WordPress Settings -> Permalinks -> ...",
                          "FIX #2 (GoDaddy): ...",
                          "FIX #3: Contact hosting support ...",
                          "FIX #4: Temporarily disable security plugins ...">>)
           [] answer.status = 403 ->
                failure(Message("403 Forbidden - Valid credentials but insufficient permissions",
                                0, ""),
                        <<"Your user account may not have sufficient permissions. ...">>)
           [] OTHER ->
                failure(Message("Status {status}: {reason}", answer.status,
                                Reason(answer.status)), <<>>)

\* "406" in test4["message"]: the fixed text of the 406 branch, or an
\* interpolated status of 406 (no transport error of the model has 406
\* in its text)
Mentions406(message) ==
    \/ message.text = "406 Not Acceptable - Server blocking request"
    \/ message.status = 406

\* lines 189-203: test 5, inferred from test 4
AuthorizationHeaderTest(test4) ==
    IF test4.status = "fail" /\ Mentions406(test4.message)
    THEN [test |-> Test("Authorization Header", "fail",
                        Message("Server not passing authorization headers",
                                0, "")),
          recommendations |->
              <<"Your server is stripping authorization headers. ...">>]
    ELSE IF test4.status = "pass"
    THEN [test |-> Test("Authorization Header", "pass",
                        Message("Authorization headers working correctly",
                                0, "")),
          recommendations |-> <<>>]
    ELSE [test |-> Test("Authorization Header", "unknown",
                        Message("Cannot determine - authentication test needed",
                                0, "")),
          recommendations |-> <<>>]

\* lines 206-212
OverallStatus(tests) ==
    IF \A i \in 1..Len(tests) : tests[i].status = "pass" THEN "pass"
    ELSE IF \E i \in 1..Len(tests) : tests[i].status = "fail" THEN "fail"
    ELSE "warning"

\* lines 215-221: the recommendations that name Settings -> Permalinks
MentionsPermalinks(recommendation) ==
    recommendation = "FIX #1: Go to WordPress Settings -> Permalinks -> ..."

GeneralRecommendations(overall, recommendations) ==
    IF /\ overall # "pass"
       /\ ~\E i \in 1..Len(recommendations) :
              MentionsPermalinks(recommendations[i])
    THEN <<"QUICK FIX TO TRY: Go to WordPress Dashboard -> Settings -> Permalinks -> ...">>
    ELSE <<>>

\* results after one more test
WithTest(r, t) ==
    [r EXCEPT !.tests = Append(@, t.test),
              !.recommendations = @ \o t.recommendations]

InitDiagUnit ==
    /\ site_scheme \in {"https://", "http://"}
    /\ diag_api \in DiscoveryAnswers
    /\ diag_posts \in DiscoveryAnswers
    /\ diag_auth \in IdentityAnswers
    /\ diag_results = EmptyResults
    /\ pcDiag = "test1"

IdleDiag ==
    /\ site_scheme = "https://"
    /\ diag_api = [failed |-> TRUE, status |-> 0, error |-> "timed out"]
    /\ diag_posts = [failed |-> TRUE, status |-> 0, error |-> "timed out"]
    /\ diag_auth = [failed |-> TRUE, status |-> 0, error |-> "timed out",
                    json |-> "none", name |-> "<missing>"]
    /\ diag_results = EmptyResults
    /\ pcDiag = "test1"

\* lines 86-107
DiagRestApi ==
    /\ pcDiag = "test1"
    /\ diag_results' = WithTest(diag_results, RestApiTest(diag_api))
    /\ pcDiag' = "test2"
    /\ UNCHANGED <<site_scheme, diag_api, diag_posts, diag_auth>>

\* lines 109-124
DiagPublicPosts ==
    /\ pcDiag = "test2"
    /\ diag_results' = WithTest(diag_results, PublicPostsTest(diag_posts))
    /\ pcDiag' = "test3"
    /\ UNCHANGED <<site_scheme, diag_api, diag_posts, diag_auth>>

\* lines 126-137
DiagHttps ==
    /\ pcDiag = "test3"
    /\ diag_results' = WithTest(diag_results, HttpsTest(site_scheme))
    /\ pcDiag' = "test4"
    /\ UNCHANGED <<site_scheme, diag_api, diag_posts, diag_auth>>

\* lines 139-186
DiagAuthentication ==
    /\ pcDiag = "test4"
    /\ \E json_error_caught \in BOOLEAN :
         LET t == AuthenticationTest(diag_auth, json_error_caught)
         IN  IF t.raised
             THEN pcDiag' = "raised" /\ UNCHANGED diag_results
             ELSE /\ pcDiag' = "test5"
                  /\ diag_results' =
                         WithTest(diag_results,
                                  [test |-> t.test,
                                   recommendations |-> t.recommendations])
    /\ UNCHANGED <<site_scheme, diag_api, diag_posts, diag_auth>>

\* lines 188-223
DiagAuthorizationHeader ==
    /\ pcDiag = "test5"
    /\ LET r == WithTest(diag_results,
                         AuthorizationHeaderTest(diag_results.tests[4]))
           overall == OverallStatus(r.tests)
       IN  diag_results' =
               [r EXCEPT !.overall_status = overall,
                         !.recommendations =
                             @ \o GeneralRecommendations(overall, @)]
    /\ pcDiag' = "done"
    /\ UNCHANGED <<site_scheme, diag_api, diag_posts, diag_auth>>

(***************************************************************************)
(* The replacement run (src/main.py): the Start and Stop buttons of the    *)
(* window and the worker thread running run_replacement.                   *)
(***************************************************************************)
\* One entry of the record of a run: a call of the client (event is the
\* method) or a line logged (event is the line's fixed text); idx is the
\* position of the local file it belongs to, 0 outside the loop.  A
\* listing call carries the number of items it returned, an upload the
\* status it was answered with and the source_url of the record it
\* returned, an update the item's id and the content sent.
Event(event, idx, n, text) ==
    [event |-> event, idx |-> idx, n |-> n, text |-> text]

Requests == {"get_media_items", "upload_media", "get_posts", "get_pages",
             "update_post", "update_page"}

\* The local files: a.webp and b.webp, and c.webp, which no asset matches
RunFileNames ==
    { <<"a">> \o WebpSuffix, <<"b">> \o WebpSuffix, <<"c">> \o WebpSuffix }

\* list(folder_path.glob("*.webp")): distinct files, in any order (a
\* missing folder gives the empty list)
FolderContents ==
    { q \in SeqsUpTo(RunFileNames, MaxFiles) :
        \A i, j \in 1..Len(q) : i # j => q[i] # q[j] }

\* The remote assets: a.png with one size variant, and b.png
AssetA ==
    [id |-> 1, source_url |-> <<"a", ".", "p", "n", "g">>,
     sizes |-> << [source_url |-> <<"a", "-", "1", "x", "1", ".", "p", "n", "g">>] >>]
AssetB ==
    [id |-> 2, source_url |-> <<"b", ".", "p", "n", "g">>, sizes |-> <<>>]

\* The text items: a post naming both assets, a page naming one
TextItem(id, type, body) ==
    [id |-> id, type |-> type, title |-> [isdict |-> TRUE, value |-> <<"t">>],
     content |-> [isdict |-> TRUE, value |-> body]]

PostBodies ==
    { <<"a", ".", "p", "n", "g", " ", "b", ".", "p", "n", "g">> }
PageBodies ==
    { <<"b", ".", "p", "n", "g">>,
      <<"a", "-", "1", "x", "1", ".", "p", "n", "g">> }

\* The remote site at the start of a run
Sites ==
    [media   : { <<AssetA>>, <<AssetA, AssetB>> },
     posts   : { <<TextItem(1, "post", b)>> : b \in PostBodies },
     pages   : { <<TextItem(2, "page", b)>> : b \in PageBodies },
     created : {0}]

\* The source_url the site gives the k-th asset created in the run
DigitChars == <<"0", "1", "2", "3", "4", "5", "6", "7", "8", "9">>
CreatedUrl(k) == <<"n", DigitChars[(k % 10) + 1]>>

\* self.api.test_connection(): its calls' answers, as far as the run
\* tells them apart
RunDiscoveryAnswers ==
    { d \in DiscoveryAnswers :
        d.status \in {0, 200, 500} /\ d.error \in {"", "timed out"} }
RunIdentityAnswers ==
    { a \in IdentityAnswers :
        /\ a.status \in {200, 401}
        /\ a.name # "<missing>" \/ a.json = "notobject" }

\* How a listing (get_media_items, get_posts, get_pages) ends: with all
\* the items, with none (the first request failed), or raising (the
\* total-page-count header was not a number)
ListingOutcomes == {"ok", "failed", "raised"}

Listed(outcome, items) == IF outcome = "ok" THEN items ELSE <<>>

\* The answers to an upload: no answer, 201 with the new asset's record
\* (with or without its source_url), 201 with a body that is not JSON,
\* and an error status
RunUploadAnswers(url) ==
    { [failed |-> TRUE, status |-> 0, json |-> "none", record |-> NoMedia],
      [failed |-> FALSE, status |-> 201, json |-> "object",
       record |-> [id |-> 7, source_url |-> url]],
      [failed |-> FALSE, status |-> 201, json |-> "object",
       record |-> [id |-> 7, source_url |-> Missing]],
      [failed |-> FALSE, status |-> 201, json |-> "notjson",
       record |-> NoMedia],
      [failed |-> FALSE, status |-> 500, json |-> "notjson",
       record |-> NoMedia] }

\* The answers to an update
RunUpdateAnswers ==
    { [failed |-> FALSE, status |-> 200], [failed |-> FALSE, status |-> 403] }

\* [c for c in matching_content if c.get("type") == content_type]
IsPost(c) == c.type = "post"
IsPage(c) == c.type = "page"

\* A site that stores nothing
Unstored(items, calls, responses, i) == items

\* The site's items after the update calls: a call answered 200 has
\* stored its content
RECURSIVE Stored(_, _, _, _)
Stored(items, calls, responses, i) ==
    IF i > Len(calls) THEN items
    ELSE Stored([k \in 1..Len(items) |->
                    IF items[k].id = calls[i].id /\ UpdateSucceeded(responses[i])
                    THEN [items[k] EXCEPT
                              !.content = [isdict |-> TRUE,
                                           value |-> calls[i].content]]
                    ELSE items[k]],
                calls, responses, i + 1)

\* The record of one update_content_items call of file idx: its requests,
\* then a line for each result that succeeded (lines 434-436, 444-446)
IsLine(e) == e.event # ""

UpdateEvents(r, type, idx) ==
    [i \in 1..Len(r.calls) |->
        Event(r.calls[i].op, idx, r.calls[i].id, r.calls[i].content)]
      \o SelectSeq([i \in 1..Len(r.results) |->
                       Event(IF ~r.results[i].success THEN ""
                             ELSE IF type = "post" THEN "Updated post"
                             ELSE "Updated page",
                             idx, r.results[i].id, <<>>)],
                   IsLine)

\* The local variables of run_replacement before they are assigned
NoLocals ==
    [webp_files |-> <<>>, media_items |-> <<>>, idx |-> 0,
     successful_replacements |-> 0, total_files |-> 0,
     matching_media |-> NoMedia, new_url |-> <<>>, old_urls |-> <<>>,
     posts |-> <<>>, matching_content |-> <<>>]

InitRunUnit ==
    /\ running = FALSE
    /\ start_button = "normal"
    /\ stop_button = "disabled"
    /\ folder \in FolderContents
    /\ site \in Sites
    /\ locals = NoLocals
    /\ events = <<>>
    /\ stops = 0
    /\ pcRun = "not started"

IdleRun ==
    /\ running = FALSE
    /\ start_button = "normal"
    /\ stop_button = "disabled"
    /\ folder = <<>>
    /\ site = [media |-> <<>>, posts |-> <<>>, pages |-> <<>>, created |-> 0]
    /\ locals = NoLocals
    /\ events = <<>>
    /\ stops = 0
    /\ pcRun = "not started"

\* The buttons and the flag stay as they are
SameWindow == UNCHANGED <<running, start_button, stop_button, stops>>

\* except Exception as e: self.log(f"ERROR: {str(e)}") (lines 455-456),
\* on the way to the finally clause
Raise(more) ==
    /\ events' = events \o more \o <<Event("ERROR: {e}", 0, 0, <<>>)>>
    /\ pcRun' = "finally"

\* start_replacement (lines 303-325), with all four fields filled in: the
\* Start button is clickable
StartReplacement ==
    /\ start_button = "normal"
    /\ pcRun = "not started"
    /\ running' = TRUE
    /\ start_button' = "disabled"
    /\ stop_button' = "normal"
    /\ pcRun' = "connect"
    /\ UNCHANGED <<folder, site, locals, events, stops>>

\* stop_replacement (lines 327-330): the Stop button is clickable
StopReplacement ==
    /\ stop_button = "normal"
    /\ stops < MaxStops
    /\ stops' = stops + 1
    /\ running' = FALSE
    /\ events' = Append(events, Event("Stopping process...", 0, 0, <<>>))
    /\ UNCHANGED <<start_button, stop_button, folder, site, locals, pcRun>>

\* lines 334-364: test_connection and what the run does with its result
TestConnection ==
    /\ pcRun = "connect"
    /\ \E d \in RunDiscoveryAnswers, a \in RunIdentityAnswers,
          json_error_caught \in BOOLEAN :
         LET o == IF d.failed \/ d.status # 200
                  THEN [raised |-> FALSE] @@ DiscoveryFailure(d)
                  ELSE IdentityOutcome(a, json_error_caught)
         IN  IF o.raised THEN Raise(<<>>)
             ELSE IF ~o.success
             THEN /\ events' = Append(events,
                                      Event("ERROR: {message}", 0, 0, <<>>))
                  /\ pcRun' = "finish and return"
             ELSE /\ events' = Append(events,
                                      Event("Connection successful!", 0, 0, <<>>))
                  /\ pcRun' = "scan"
    /\ UNCHANGED <<folder, site, locals>>
    /\ SameWindow

\* lines 366-375: get_webp_files
ScanFolder ==
    /\ pcRun = "scan"
    /\ locals' = [locals EXCEPT !.webp_files = folder]
    /\ IF folder = <<>>
       THEN /\ events' = Append(events,
                                Event("No WebP files found in folder", 0, 0, <<>>))
            /\ pcRun' = "finish and return"
       ELSE /\ pcRun' = "media"
            /\ UNCHANGED events
    /\ UNCHANGED <<folder, site>>
    /\ SameWindow

\* lines 377-384: get_media_items, and the counters
FetchMedia ==
    /\ pcRun = "media"
    /\ \E outcome \in ListingOutcomes :
         LET request == Event("get_media_items", 0,
                              Len(Listed(outcome, site.media)), <<>>)
         IN  IF outcome = "raised"
             THEN Raise(<<request>>) /\ UNCHANGED locals
             ELSE /\ events' = Append(events, request)
                  /\ locals' = [locals EXCEPT
                                   !.media_items = Listed(outcome, site.media),
                                   !.successful_replacements = 0,
                                   !.total_files = Len(locals.webp_files),
                                   !.idx = 1]
                  /\ pcRun' = "loop"
    /\ UNCHANGED <<folder, site>>
    /\ SameWindow

\* A worker that never looks at the flag
StopNeverSeen == FALSE

\* A worker that goes on after a failed upload
UploadNeverFailed(uploaded) == FALSE

\* line 397: if not matching_media
NoMatch(matching) == matching = NoMedia

\* line 408: if not uploaded_media
UploadFailed(uploaded) == uploaded = NoMedia

\* line 387: if not self.running
StopSeen == ~running

\* lines 386-402: the head of the loop: the end of the list, the stop
\* flag, and the match
NextFile ==
    /\ pcRun = "loop"
    /\ IF locals.idx > Len(locals.webp_files)
       THEN pcRun' = "summary" /\ UNCHANGED <<events, locals>>
       ELSE IF StopSeen
       THEN /\ events' = Append(events,
                                Event("Process stopped by user", 0, 0, <<>>))
            /\ pcRun' = "summary"
            /\ UNCHANGED locals
       ELSE LET idx      == locals.idx
                matching == FindMatchingMedia(locals.webp_files[idx],
                                              locals.media_items)
                line     == Event("Processing: {name}", idx, 0, <<>>)
            IN  IF NoMatch(matching)
                THEN /\ events' = events \o
                           <<line, Event("No matching PNG found", idx, 0, <<>>)>>
                     /\ locals' = [locals EXCEPT !.idx = idx + 1]
                     /\ pcRun' = "loop"
                ELSE /\ events' = events \o
                           <<line, Event("Matched", idx, 0, matching.source_url)>>
                     /\ locals' = [locals EXCEPT !.matching_media = matching]
                     /\ pcRun' = "upload"
    /\ UNCHANGED <<folder, site>>
    /\ SameWindow

\* lines 404-416: upload_media, new_url, old_urls
UploadFile ==
    /\ pcRun = "upload"
    /\ \E answer \in RunUploadAnswers(CreatedUrl(site.created + 1)),
          json_error_caught \in BOOLEAN :
         LET idx     == locals.idx
             r       == UploadMedia("ok", answer, json_error_caught)
             request == Event("upload_media", idx, answer.status,
                              IF r.value = NoMedia THEN <<>>
                              ELSE r.value.source_url)
             created == ~answer.failed /\ answer.status = 201
         IN  /\ site' = [site EXCEPT
                            !.created = IF created THEN @ + 1 ELSE @]
             /\ IF r.raised
                THEN Raise(<<request>>) /\ UNCHANGED locals
                ELSE IF UploadFailed(r.value)
                THEN /\ events' = events \o
                           <<request, Event("ERROR: Upload failed", idx, 0, <<>>)>>
                     /\ locals' = [locals EXCEPT !.idx = idx + 1]
                     /\ pcRun' = "loop"
                ELSE IF r.value.source_url = Missing
                THEN Raise(<<request>>) /\ UNCHANGED locals
                ELSE /\ events' = events \o
                           <<request,
                             Event("Uploaded successfully", idx, 0,
                                   r.value.source_url)>>
                     /\ locals' = [locals EXCEPT
                                      !.new_url = r.value.source_url,
                                      !.old_urls =
                                          ExtractUrlPatterns(locals.matching_media)]
                     /\ pcRun' = "posts"
    /\ UNCHANGED folder
    /\ SameWindow

\* line 420: get_posts
FetchPosts ==
    /\ pcRun = "posts"
    /\ \E outcome \in ListingOutcomes :
         LET request == Event("get_posts", locals.idx,
                              Len(Listed(outcome, site.posts)), <<>>)
         IN  IF outcome = "raised"
             THEN Raise(<<request>>) /\ UNCHANGED locals
             ELSE /\ events' = Append(events, request)
                  /\ locals' = [locals EXCEPT
                                   !.posts = Listed(outcome, site.posts)]
                  /\ pcRun' = "pages"
    /\ UNCHANGED <<folder, site>>
    /\ SameWindow

\* lines 421-426: get_pages, all_content, find_content_with_urls
FetchPages ==
    /\ pcRun = "pages"
    /\ \E outcome \in ListingOutcomes :
         LET request == Event("get_pages", locals.idx,
                              Len(Listed(outcome, site.pages)), <<>>)
             all_content == locals.posts \o Listed(outcome, site.pages)
             matching == FindContentWithUrls(all_content, locals.old_urls)
         IN  IF outcome = "raised"
             THEN Raise(<<request>>) /\ UNCHANGED locals
             ELSE /\ events' = events \o
                        <<request,
                          Event("Found {n} items to update", locals.idx,
                                Len(matching), <<>>)>>
                  /\ locals' = [locals EXCEPT !.matching_content = matching]
                  /\ pcRun' = "update posts"
    /\ UNCHANGED <<folder, site>>
    /\ SameWindow

\* lines 428-436: the posts among the matching items are updated
UpdatePosts ==
    /\ pcRun = "update posts"
    /\ LET posts_to_update == SelectSeq(locals.matching_content, IsPost)
       IN  \E responses \in [1..Len(posts_to_update) -> RunUpdateAnswers] :
             LET r == UpdateContentItems(posts_to_update, locals.old_urls,
                                         locals.new_url, "post", responses)
             IN  /\ site' = [site EXCEPT
                                !.posts = Stored(@, r.calls, responses, 1)]
                 /\ IF r.raised
                    THEN Raise(UpdateEvents(r, "post", locals.idx))
                    ELSE /\ events' = events \o
                                UpdateEvents(r, "post", locals.idx)
                         /\ pcRun' = "update pages"
    /\ UNCHANGED <<folder, locals>>
    /\ SameWindow

\* A counter that counts the update calls that succeeded
CountedPerUpdate(count, page_results) ==
    count + Cardinality({i \in 1..Len(page_results) : page_results[i].success})

\* line 448: successful_replacements += 1
Counted(count, page_results) == count + 1

\* lines 438-448: the pages among the matching items are updated, and the
\* file is counted
UpdatePages ==
    /\ pcRun = "update pages"
    /\ LET pages_to_update == SelectSeq(locals.matching_content, IsPage)
       IN  \E responses \in [1..Len(pages_to_update) -> RunUpdateAnswers] :
             LET r == UpdateContentItems(pages_to_update, locals.old_urls,
                                         locals.new_url, "page", responses)
             IN  /\ site' = [site EXCEPT
                                !.pages = Stored(@, r.calls, responses, 1)]
                 /\ IF r.raised
                    THEN Raise(UpdateEvents(r, "page", locals.idx))
                         /\ UNCHANGED locals
                    ELSE /\ events' = events \o
                                UpdateEvents(r, "page", locals.idx)
                         /\ locals' =
                                [locals EXCEPT
                                    !.successful_replacements =
                                        Counted(@, r.results),
                                    !.idx = @ + 1]
                         /\ pcRun' = "loop"
    /\ UNCHANGED folder
    /\ SameWindow

\* lines 450-453: the summary
Summary ==
    /\ pcRun = "summary"
    /\ events' = events \o
           <<Event("Replacement complete!", 0, 0, <<>>),
             Event("Processed: {k}/{n} files", locals.total_files,
                   locals.successful_replacements, <<>>)>>
    /\ pcRun' = "finally"
    /\ UNCHANGED <<folder, site, locals>>
    /\ SameWindow

\* finish_replacement (lines 461-466), called before an early return
\* (lines 361, 374) and by the finally clause (line 459)
FinishReplacement ==
    /\ pcRun \in {"finish and return", "finally"}
    /\ running' = FALSE
    /\ start_button' = "normal"
    /\ stop_button' = "disabled"
    /\ pcRun' = IF pcRun = "finish and return" THEN "finally" ELSE "finished"
    /\ UNCHANGED <<folder, site, locals, events, stops>>

(***************************************************************************)
(* The front-end thread and the worker threads (src/main.py).  Every click *)
(* on Start starts a new thread on run_replacement; all threads share      *)
(* self.running and the two buttons.  A worker's assignment to             *)
(* self.running is a plain store and may fall anywhere; its calls on a     *)
(* button are carried out by the front-end thread between two handlers.    *)
(* What a run does to the site is in the run above; here a run is the      *)
(* sequence of its steps.                                                  *)
(***************************************************************************)
Workers == 1..MaxWorkers

\* A thread that was not started yet
NotStarted ==
    [pc |-> "not started", idx |-> 0, total_files |-> 0, after |-> "end"]

\* The steps of run_replacement before its clean-up (lines 334-453)
RunSteps ==
    {"test_connection", "get_webp_files", "get_media_items", "loop", "file",
     "summary"}

Executing(w) == threads[w].pc \in RunSteps

\* The threads between threading.Thread.start() and their end
Alive == {w \in Workers : threads[w].pc \notin {"not started", "ended"}}

NoHistory == [stopped |-> {}, reported |-> {}, cleared |-> {}]

InitThreadsUnit ==
    /\ ui_running = FALSE
    /\ ui_start_button = "normal"
    /\ ui_stop_button = "disabled"
    /\ pcMain = "mainloop"
    /\ threads = [w \in Workers |-> NotStarted]
    /\ started = 0
    /\ clicks = 0
    /\ history = NoHistory

IdleThreads ==
    /\ ui_running = FALSE
    /\ ui_start_button = "normal"
    /\ ui_stop_button = "disabled"
    /\ pcMain = "mainloop"
    /\ threads = <<>>
    /\ started = 0
    /\ clicks = 0
    /\ history = NoHistory

\* One thread takes a step of run_replacement
Step(w, to) == threads' = [threads EXCEPT ![w].pc = to]

SameButtons == UNCHANGED <<ui_start_button, ui_stop_button, pcMain, started,
                           clicks>>

\* start_replacement up to self.running = True (lines 303-319), with all
\* four fields filled in: a click on Start while the button is enabled
ClickStart ==
    /\ pcMain = "mainloop"
    /\ ui_start_button = "normal"
    /\ started < MaxWorkers
    /\ ui_running' = TRUE
    /\ pcMain' = "start_replacement"
    /\ UNCHANGED <<ui_start_button, ui_stop_button, threads, started, clicks,
                   history>>

\* start_replacement, lines 320-325: the buttons, then the new thread
StartThread ==
    /\ pcMain = "start_replacement"
    /\ ui_start_button' = "disabled"
    /\ ui_stop_button' = "normal"
    /\ started' = started + 1
    /\ Step(started + 1, "test_connection")
    /\ pcMain' = "mainloop"
    /\ UNCHANGED <<ui_running, clicks, history>>

\* stop_replacement (lines 327-330): a click on Stop while the button is
\* enabled
ClickStop ==
    /\ pcMain = "mainloop"
    /\ ui_stop_button = "normal"
    /\ clicks < MaxStops
    /\ ui_running' = FALSE
    /\ clicks' = clicks + 1
    /\ history' = [history EXCEPT !.stopped = @ \cup Alive]
    /\ UNCHANGED <<ui_start_button, ui_stop_button, pcMain, threads, started>>

\* self.finish_replacement(); return (lines 361-362, 374-375)
FinishAndReturn(w) ==
    threads' = [threads EXCEPT ![w].pc = "finish_replacement",
                               ![w].after = "return"]

\* lines 336-364: the connection test
ThreadTestConnection(w) ==
    /\ threads[w].pc = "test_connection"
    /\ \E success \in BOOLEAN :
           IF success THEN Step(w, "get_webp_files") ELSE FinishAndReturn(w)
    /\ UNCHANGED <<ui_running, history>>
    /\ SameButtons

\* lines 366-375: the local files
ThreadScanFolder(w) ==
    /\ threads[w].pc = "get_webp_files"
    /\ \E n \in 0..MaxFiles :
           IF n = 0 THEN FinishAndReturn(w)
           ELSE threads' = [threads EXCEPT ![w].pc = "get_media_items",
                                           ![w].total_files = n]
    /\ UNCHANGED <<ui_running, history>>
    /\ SameButtons

\* lines 377-384: the remote assets; an exception goes to the except
\* clause (lines 455-456) and then to the finally clause
ThreadFetchMedia(w) ==
    /\ threads[w].pc = "get_media_items"
    /\ \E raised \in BOOLEAN :
           Step(w, IF raised THEN "finally" ELSE "loop")
    /\ UNCHANGED <<ui_running, history>>
    /\ SameButtons

\* lines 386-389: the head of the loop reads self.running
ThreadLoopHead(w) ==
    /\ threads[w].pc = "loop"
    /\ IF threads[w].idx = threads[w].total_files
       THEN /\ Step(w, "summary")
            /\ UNCHANGED history
       ELSE IF ~ui_running
       THEN /\ Step(w, "summary")
            /\ history' = [history EXCEPT !.reported = @ \cup {w}]
       ELSE /\ Step(w, "file")
            /\ UNCHANGED history
    /\ UNCHANGED ui_running
    /\ SameButtons

\* lines 391-448: one file, carried through or raising
ThreadProcessFile(w) ==
    /\ threads[w].pc = "file"
    /\ \E raised \in BOOLEAN :
           IF raised THEN Step(w, "finally")
           ELSE threads' = [threads EXCEPT ![w].pc = "loop",
                                           ![w].idx = @ + 1]
    /\ UNCHANGED <<ui_running, history>>
    /\ SameButtons

\* lines 450-453, then the finally clause
ThreadSummary(w) ==
    /\ threads[w].pc = "summary"
    /\ Step(w, "finally")
    /\ UNCHANGED <<ui_running, history>>
    /\ SameButtons

\* The runs started after thread w's that self.running = False takes the
\* flag from
ClearedBy(w) ==
    IF ui_running
    THEN {<<w, v>> : v \in {u \in Workers : u > w /\ Executing(u)}}
    ELSE {}

\* finish_replacement, line 463, entered from an early return or from the
\* finally clause (line 459)
FinishRunning(w) ==
    /\ threads[w].pc \in {"finish_replacement", "finally"}
    /\ ui_running' = FALSE
    /\ threads' = [threads EXCEPT
                      ![w].pc = "start_button",
                      ![w].after = IF threads[w].pc = "finally" THEN "end"
                                   ELSE @]
    /\ history' = [history EXCEPT !.cleared = @ \cup ClearedBy(w)]
    /\ SameButtons

\* finish_replacement, line 464
FinishStartButton(w) ==
    /\ threads[w].pc = "start_button"
    /\ pcMain = "mainloop"
    /\ ui_start_button' = "normal"
    /\ Step(w, "stop_button")
    /\ UNCHANGED <<ui_running, ui_stop_button, pcMain, started, clicks,
                   history>>

\* finish_replacement, lines 465-466; after the call before a return the
\* finally clause follows, after the call of the finally clause the thread
\* ends
FinishStopButton(w) ==
    /\ threads[w].pc = "stop_button"
    /\ pcMain = "mainloop"
    /\ ui_stop_button' = "disabled"
    /\ Step(w, IF threads[w].after = "return" THEN "finally" ELSE "ended")
    /\ UNCHANGED <<ui_running, ui_start_button, pcMain, started, clicks,
                   history>>

(***************************************************************************)
(* The specifications: one unit runs, the others stay idle.                *)
(***************************************************************************)
InitNormalize ==
    /\ InitNormalizeUnit
    /\ IdleMatch /\ IdleUrls /\ IdleReplace /\ IdleFind /\ IdleUpdate /\ IdleListing
       /\ IdleApi /\ IdleConn /\ IdleDiag /\ IdleRun /\ IdleThreads

NextNormalize ==
    \/ Normalize
         /\ UNCHANGED <<matchVars, urlsVars, replVars, findVars, updVars, listVars,
            apiVars, connVars, diagVars, runVars, thrVars>>
    \/ NormalizeAgain
         /\ UNCHANGED <<matchVars, urlsVars, replVars, findVars, updVars, listVars,
            apiVars, connVars, diagVars, runVars, thrVars>>

SpecNormalize == InitNormalize /\ [][NextNormalize]_vars

InitMatch ==
    /\ InitMatchUnit
    /\ IdleNormalize /\ IdleUrls /\ IdleReplace /\ IdleFind /\ IdleUpdate /\ IdleListing
       /\ IdleApi /\ IdleConn /\ IdleDiag /\ IdleRun /\ IdleThreads

NextMatch ==
    FindMatch
      /\ UNCHANGED <<normVars, urlsVars, replVars, findVars, updVars, listVars,
            apiVars, connVars, diagVars, runVars, thrVars>>

SpecMatch == InitMatch /\ [][NextMatch]_vars

InitUrls ==
    /\ InitUrlsUnit
    /\ IdleNormalize /\ IdleMatch /\ IdleReplace /\ IdleFind /\ IdleUpdate /\ IdleListing
       /\ IdleApi /\ IdleConn /\ IdleDiag /\ IdleRun /\ IdleThreads

NextUrls ==
    ExtractUrls
      /\ UNCHANGED <<normVars, matchVars, replVars, findVars, updVars, listVars,
            apiVars, connVars, diagVars, runVars, thrVars>>

SpecUrls == InitUrls /\ [][NextUrls]_vars

InitReplace ==
    /\ InitReplaceUnit
    /\ IdleNormalize /\ IdleMatch /\ IdleUrls /\ IdleFind /\ IdleUpdate /\ IdleListing
       /\ IdleApi /\ IdleConn /\ IdleDiag /\ IdleRun /\ IdleThreads

NextReplace ==
    FindAndReplace
      /\ UNCHANGED <<normVars, matchVars, urlsVars, findVars, updVars, listVars,
            apiVars, connVars, diagVars, runVars, thrVars>>

SpecReplace == InitReplace /\ [][NextReplace]_vars

InitFind ==
    /\ InitFindUnit
    /\ IdleNormalize /\ IdleMatch /\ IdleUrls /\ IdleReplace /\ IdleUpdate /\ IdleListing
       /\ IdleApi /\ IdleConn /\ IdleDiag /\ IdleRun /\ IdleThreads

NextFind ==
    FindContent
      /\ UNCHANGED <<normVars, matchVars, urlsVars, replVars, updVars, listVars,
            apiVars, connVars, diagVars, runVars, thrVars>>

SpecFind == InitFind /\ [][NextFind]_vars

InitUpdate ==
    /\ InitUpdateUnit
    /\ IdleNormalize /\ IdleMatch /\ IdleUrls /\ IdleReplace /\ IdleFind /\ IdleListing
       /\ IdleApi /\ IdleConn /\ IdleDiag /\ IdleRun /\ IdleThreads

NextUpdate ==
    UpdateItems
      /\ UNCHANGED <<normVars, matchVars, urlsVars, replVars, findVars, listVars,
            apiVars, connVars, diagVars, runVars, thrVars>>

SpecUpdate == InitUpdate /\ [][NextUpdate]_vars

InitListing ==
    /\ InitListingUnit
    /\ IdleNormalize /\ IdleMatch /\ IdleUrls /\ IdleReplace /\ IdleFind /\ IdleUpdate
       /\ IdleApi /\ IdleConn /\ IdleDiag /\ IdleRun /\ IdleThreads

NextListing ==
    FetchPage
      /\ UNCHANGED <<normVars, matchVars, urlsVars, replVars, findVars, updVars,
            apiVars, connVars, diagVars, runVars, thrVars>>

SpecListing == InitListing /\ [][NextListing]_vars

InitApi ==
    /\ InitApiUnit
    /\ IdleNormalize /\ IdleMatch /\ IdleUrls /\ IdleReplace /\ IdleFind
       /\ IdleUpdate /\ IdleListing /\ IdleConn /\ IdleDiag /\ IdleRun
       /\ IdleThreads

NextApi ==
    \/ CallUploadMedia
         /\ UNCHANGED <<normVars, matchVars, urlsVars, replVars, findVars,
                        updVars, listVars, connVars, diagVars, runVars,
            thrVars>>
    \/ CallUpdatePost
         /\ UNCHANGED <<normVars, matchVars, urlsVars, replVars, findVars,
                        updVars, listVars, connVars, diagVars, runVars,
            thrVars>>
    \/ CallUpdatePage
         /\ UNCHANGED <<normVars, matchVars, urlsVars, replVars, findVars,
                        updVars, listVars, connVars, diagVars, runVars,
            thrVars>>

SpecApi == InitApi /\ [][NextApi]_vars

InitConn ==
    /\ InitConnUnit
    /\ IdleNormalize /\ IdleMatch /\ IdleUrls /\ IdleReplace /\ IdleFind
       /\ IdleUpdate /\ IdleListing /\ IdleApi /\ IdleDiag /\ IdleRun
       /\ IdleThreads

NextConn ==
    \/ CheckRestApi
         /\ UNCHANGED <<normVars, matchVars, urlsVars, replVars, findVars,
                        updVars, listVars, apiVars, diagVars, runVars,
            thrVars>>
    \/ CheckAuthentication
         /\ UNCHANGED <<normVars, matchVars, urlsVars, replVars, findVars,
                        updVars, listVars, apiVars, diagVars, runVars,
            thrVars>>

SpecConn == InitConn /\ [][NextConn]_vars

InitDiag ==
    /\ InitDiagUnit
    /\ IdleNormalize /\ IdleMatch /\ IdleUrls /\ IdleReplace /\ IdleFind
       /\ IdleUpdate /\ IdleListing /\ IdleApi /\ IdleConn /\ IdleRun
       /\ IdleThreads

NextDiag ==
    \/ DiagRestApi
         /\ UNCHANGED <<normVars, matchVars, urlsVars, replVars, findVars,
                        updVars, listVars, apiVars, connVars, runVars,
            thrVars>>
    \/ DiagPublicPosts
         /\ UNCHANGED <<normVars, matchVars, urlsVars, replVars, findVars,
                        updVars, listVars, apiVars, connVars, runVars,
            thrVars>>
    \/ DiagHttps
         /\ UNCHANGED <<normVars, matchVars, urlsVars, replVars, findVars,
                        updVars, listVars, apiVars, connVars, runVars,
            thrVars>>
    \/ DiagAuthentication
         /\ UNCHANGED <<normVars, matchVars, urlsVars, replVars, findVars,
                        updVars, listVars, apiVars, connVars, runVars,
            thrVars>>
    \/ DiagAuthorizationHeader
         /\ UNCHANGED <<normVars, matchVars, urlsVars, replVars, findVars,
                        updVars, listVars, apiVars, connVars, runVars,
            thrVars>>

SpecDiag == InitDiag /\ [][NextDiag]_vars

InitRun ==
    /\ InitRunUnit
    /\ IdleNormalize /\ IdleMatch /\ IdleUrls /\ IdleReplace /\ IdleFind
       /\ IdleUpdate /\ IdleListing /\ IdleApi /\ IdleConn /\ IdleDiag
       /\ IdleThreads

OtherUnitsUnchanged ==
    UNCHANGED <<normVars, matchVars, urlsVars, replVars, findVars, updVars,
                listVars, apiVars, connVars, diagVars, thrVars>>

NextRun ==
    \/ StartReplacement /\ OtherUnitsUnchanged
    \/ StopReplacement /\ OtherUnitsUnchanged
    \/ TestConnection /\ OtherUnitsUnchanged
    \/ ScanFolder /\ OtherUnitsUnchanged
    \/ FetchMedia /\ OtherUnitsUnchanged
    \/ NextFile /\ OtherUnitsUnchanged
    \/ UploadFile /\ OtherUnitsUnchanged
    \/ FetchPosts /\ OtherUnitsUnchanged
    \/ FetchPages /\ OtherUnitsUnchanged
    \/ UpdatePosts /\ OtherUnitsUnchanged
    \/ UpdatePages /\ OtherUnitsUnchanged
    \/ Summary /\ OtherUnitsUnchanged
    \/ FinishReplacement /\ OtherUnitsUnchanged

SpecRun == InitRun /\ [][NextRun]_vars

InitThreads ==
    /\ InitThreadsUnit
    /\ IdleNormalize /\ IdleMatch /\ IdleUrls /\ IdleReplace /\ IdleFind
       /\ IdleUpdate /\ IdleListing /\ IdleApi /\ IdleConn /\ IdleDiag
       /\ IdleRun

NoOtherUnit ==
    UNCHANGED <<normVars, matchVars, urlsVars, replVars, findVars, updVars,
                listVars, apiVars, connVars, diagVars, runVars>>

NextThreads ==
    \/ ClickStart /\ NoOtherUnit
    \/ StartThread /\ NoOtherUnit
    \/ ClickStop /\ NoOtherUnit
    \/ \E w \in Workers : ThreadTestConnection(w) /\ NoOtherUnit
    \/ \E w \in Workers : ThreadScanFolder(w) /\ NoOtherUnit
    \/ \E w \in Workers : ThreadFetchMedia(w) /\ NoOtherUnit
    \/ \E w \in Workers : ThreadLoopHead(w) /\ NoOtherUnit
    \/ \E w \in Workers : ThreadProcessFile(w) /\ NoOtherUnit
    \/ \E w \in Workers : ThreadSummary(w) /\ NoOtherUnit
    \/ \E w \in Workers : FinishRunning(w) /\ NoOtherUnit
    \/ \E w \in Workers : FinishStartButton(w) /\ NoOtherUnit
    \/ \E w \in Workers : FinishStopButton(w) /\ NoOtherUnit

SpecThreads == InitThreads /\ [][NextThreads]_vars

(***************************************************************************)
(* Claims about normalize_filename (SpecNormalize)                         *)
(***************************************************************************)
\* C1: normalize_filename is idempotent: a second application, to the
\* result of the first, returns that result again.
C1_Idempotent ==
    pcNorm = "twice" => renormalized = normalized

\* The reference transform, written from its description: the last path
\* component loses its extension (the part from its last dot on, unless that
\* dot is its first or last character), a trailing -<digits>x<digits> and a
\* trailing -scaled are cut, the rest is lower-cased.
AllDigits(t) == Len(t) >= 1 /\ \A j \in 1..Len(t) : t[j] \in Digits

RefCutExtension(name) ==
    IF \E i \in 2..(Len(name) - 1) :
          name[i] = "." /\ \A j \in (i + 1)..Len(name) : name[j] # "."
    THEN SubSeq(name, 1, (CHOOSE i \in 2..(Len(name) - 1) :
                 name[i] = "." /\ \A j \in (i + 1)..Len(name) : name[j] # ".") - 1)
    ELSE name

RefHasSize(s, n) ==
    \E k \in (n + 3)..(Len(s) - 1) :
        /\ s[n + 1] = "-"
        /\ s[k] = "x"
        /\ AllDigits(SubSeq(s, n + 2, k - 1))
        /\ AllDigits(SubSeq(s, k + 1, Len(s)))

\* s without its trailing -<digits>x<digits>, if it has one
RefCutSize(s) ==
    IF \E n \in 0..Len(s) : RefHasSize(s, n)
    THEN SubSeq(s, 1, CHOOSE n \in 0..Len(s) : RefHasSize(s, n))
    ELSE s

\* s without its trailing -scaled, if it has one
RefCutScaled(s) ==
    IF \E q \in 0..Len(s) : s = SubSeq(s, 1, q) \o ScaledSuffix
    THEN SubSeq(s, 1, Len(s) - Len(ScaledSuffix))
    ELSE s

Qualifying ==
    { i \in 1..Len(media_items) :
        LET name == PathName(Get(media_items[i].source_url, <<>>))
        IN  /\ EndsWith(Lower(name), PngSuffix)
            /\ NormalizeFilename(name) = NormalizeFilename(webp_name) }

\* C3: find_matching_media returns the first qualifying asset in list
\* order, and None exactly when no asset qualifies.
C3_FirstQualifying ==
    pcMatch = "done" =>
        /\ (matching_media = NoMedia) <=> (Qualifying = {})
        /\ Qualifying # {} =>
              /\ matching_media.id \in Qualifying
              /\ \A i \in Qualifying : matching_media.id <= i
              /\ matching_media = media_items[matching_media.id]

\* Two assets qualify and differ; the first was returned.
C3_Witness ==
    /\ pcMatch = "done"
    /\ Cardinality(Qualifying) >= 2
    /\ media_items[1].source_url # media_items[2].source_url
    /\ matching_media = media_items[1]

(***************************************************************************)
(* Claims about extract_url_patterns (SpecUrls)                            *)
(***************************************************************************)
\* The size-variant URLs in mapping order, the variants without one skipped
VariantUrlsOf(item) ==
    SelectSeq([i \in 1..Len(item.sizes) |-> item.sizes[i].source_url], Truthy)

\* C4 (as stated): the empty list for an asset without a canonical URL,
\* however many variants it has; otherwise the canonical URL, then the
\* variant URLs in mapping order.
C4_EmptyWithoutCanonical ==
    pcUrls = "done" =>
        IF Truthy(media_item.source_url)
        THEN urls = <<media_item.source_url>> \o VariantUrlsOf(media_item)
        ELSE urls = <<>>

\* C4 (as amended): the canonical URL first if the asset has one, then the
\* variant URLs in mapping order, also for an asset without a canonical URL.
C4_CanonicalIfAnyThenVariants ==
    pcUrls = "done" =>
        urls = (IF Truthy(media_item.source_url)
                THEN <<media_item.source_url>> ELSE <<>>)
                   \o VariantUrlsOf(media_item)

\* An asset without a canonical URL, with two variants of which one has a
\* URL: that URL was returned.
C4_Witness ==
    /\ pcUrls = "done"
    /\ ~Truthy(media_item.source_url)
    /\ Len(media_item.sizes) = 2
    /\ ~Truthy(media_item.sizes[1].source_url)
    /\ Truthy(media_item.sizes[2].source_url)
    /\ urls = <<media_item.sizes[2].source_url>>

(***************************************************************************)
(* Claims about find_and_replace_urls (SpecReplace)                        *)
(***************************************************************************)
\* The number of non-overlapping literal occurrences of pat in text: the
\* most positions of pat in text one can pick no two of which overlap.
Occurrences(text, pat) ==
    LET at   == {i \in 1..Len(text) : MatchAt(text, pat, i)}
        sets == {S \in SUBSET at :
                    \A i, j \in S : i < j => j - i >= Len(pat)}
    IN  CHOOSE n \in 0..Cardinality(at) :
            /\ \E S \in sets : Cardinality(S) = n
            /\ \A S \in sets : Cardinality(S) <= n

\* What C5 asks of the arguments: the old URLs are distinct and non-empty,
\* none is part of another, and the new URL holds none of them.
C5_Arguments ==
    /\ \A i \in 1..Len(old_urls) : old_urls[i] # <<>>
    /\ \A i, j \in 1..Len(old_urls) :
          i # j => ~Contains(old_urls[i], old_urls[j])
    /\ \A i \in 1..Len(old_urls) : ~Contains(new_url, old_urls[i])

RECURSIVE SumOver(_, _)
SumOver(f, n) == IF n = 0 THEN 0 ELSE f[n] + SumOver(f, n - 1)

\* The occurrences of every old URL in the text as given
OccurrencesInOriginal ==
    SumOver([k \in 1..Len(old_urls) |-> Occurrences(content, old_urls[k])],
            Len(old_urls))

\* The occurrences of every old URL in the text as the passes before its
\* own left it
OccurrencesPassByPass ==
    SumOver([k \in 1..Len(old_urls) |->
                Occurrences(FindAndReplaceUrls(content, SubSeq(old_urls, 1, k - 1),
                                               new_url).text,
                            old_urls[k])],
            Len(old_urls))

\* C5 (as stated): the returned count is the sum, over the old URLs, of
\* each URL's non-overlapping occurrences in the original text.
C5_CountsOriginalText ==
    (pcRepl = "done" /\ C5_Arguments /\ ~replaced.raised) =>
        replaced.count = OccurrencesInOriginal

\* C5 (as amended): the returned count is the sum, over the old URLs in
\* order, of each URL's non-overlapping occurrences in the text as the
\* preceding passes left it.
C5_CountsPassByPass ==
    (pcRepl = "done" /\ C5_Arguments /\ ~replaced.raised) =>
        replaced.count = OccurrencesPassByPass

\* Two old URLs overlap in the text: the first pass took away the
\* occurrence of the second, and the count is below the original sum.
C5_Witness ==
    /\ pcRepl = "done"
    /\ C5_Arguments
    /\ ~replaced.raised
    /\ Len(old_urls) = 2
    /\ replaced.count >= 1
    /\ replaced.count < OccurrencesInOriginal

\* The text after every pass has replaced its URL by new, character for
\* character
RECURSIVE LiteralFrom(_, _, _, _)
LiteralFrom(text, olds, new, i) ==
    IF i > Len(olds) THEN text
    ELSE LiteralFrom(SubFrom(text, olds[i], new, 1), olds, new, i + 1)

\* C6: the replacement is literal: every pass puts the new URL exactly as
\* given in the place of every occurrence of its old URL, whatever
\* characters the URLs hold; with no old URL the result is (text, 0).
C6_LiteralReplacement ==
    pcRepl = "done" =>
        /\ ~replaced.raised
        /\ replaced.text = LiteralFrom(content, old_urls, new_url, 1)
        /\ old_urls = <<>> => (replaced.text = content /\ replaced.count = 0)

(***************************************************************************)
(* Claims about find_content_with_urls (SpecFind)                          *)
(***************************************************************************)
\* The positions of the items whose body holds one of the URLs
Holding ==
    { i \in 1..Len(posts_and_pages) :
        \E j \in 1..Len(search_urls) :
            Contains(ContentHtml(posts_and_pages[i]), search_urls[j]) }

\* C7: find_content_with_urls returns exactly the items whose body holds
\* at least one of the URLs, in input order, each once; nothing for an
\* empty URL list.
C7_MatchingSubsequence ==
    pcFind = "done" =>
        /\ Len(matching_content) = Cardinality(Holding)
        /\ \A k \in 1..Len(matching_content) :
              /\ matching_content[k].id \in Holding
              /\ matching_content[k] = posts_and_pages[matching_content[k].id]
        /\ \A k, l \in 1..Len(matching_content) :
              k < l => matching_content[k].id < matching_content[l].id
        /\ search_urls = <<>> => matching_content = <<>>

\* The second of two items holds both URLs, the first none: the second is
\* returned, once.
C7_Witness ==
    /\ pcFind = "done"
    /\ Len(posts_and_pages) = 2
    /\ Len(search_urls) = 2
    /\ search_urls[1] # search_urls[2]
    /\ Contains(ContentHtml(posts_and_pages[2]), search_urls[1])
    /\ Contains(ContentHtml(posts_and_pages[2]), search_urls[2])
    /\ matching_content = <<posts_and_pages[2]>>

(***************************************************************************)
(* Claims about update_content_items (SpecUpdate)                          *)
(***************************************************************************)
\* C8: update_content_items issues exactly one update call per item, in
\* input order, and returns one result record per item, in the same order,
\* with the item's id.
C8_OneUpdatePerItem ==
    pcUpd \in {"done", "raised"} =>
        /\ pcUpd = "done"
        /\ Len(api_calls) = Len(content_items)
        /\ Len(results) = Len(content_items)
        /\ \A i \in 1..Len(content_items) :
              /\ api_calls[i].id = content_items[i].id
              /\ results[i].id = content_items[i].id

(***************************************************************************)
(* Claims about the listing operations (SpecListing)                       *)
(***************************************************************************)
\* C9: against a server that answers every request with status 200 and
\* serves its N pages followed by an empty page, with or without a total
\* page count, the listing requests pages 1, 2, ... in order, returns the
\* items of all N pages and needs at most N+1 requests.
C9_AllPagesListed ==
    (pcList = "done" /\ server.failAt = 0 /\ server.header \in {"absent", "accurate"}) =>
        /\ all_items = PagesUpTo(server.npages)
        /\ Len(requested) <= server.npages + 1
        /\ \A i \in 1..Len(requested) : requested[i] = i

\* C10: a listing never raises: whatever the server answers, it ends by
\* returning the items of the pages that succeeded.
C10_NeverRaises ==
    /\ pcList # "raised"
    /\ pcList = "done" => \E n \in 0..server.npages : all_items = PagesUpTo(n)

(***************************************************************************)
(* Claims about upload_media, update_post and update_page (SpecApi)        *)
(***************************************************************************)
\* C11: upload_media returns the created asset's record if and only if its
\* upload request was answered with status 201; on every other outcome it
\* returns None; it never raises, and it sends at most one request.
C11_RecordIffCreated ==
    /\ pcApi # "raised"
    /\ (pcApi = "done" /\ api_method = "upload_media") =>
         /\ Len(api_requests) <= 1
         /\ uploaded_media # NoMedia
              <=> (/\ Len(api_requests) = 1
                   /\ ~api_response.failed
                   /\ api_response.status = 201)

\* C12: update_post and update_page send exactly one request and return
\* True if and only if it was answered with status 200; every other
\* status and a transport failure give False, and neither call raises.
C12_OneRequestTrueIff200 ==
    api_method \in {"update_post", "update_page"} =>
        /\ pcApi # "raised"
        /\ pcApi = "done" =>
             /\ Len(api_requests) = 1
             /\ api_requests[1].endpoint =
                    (IF api_method = "update_post" THEN "posts" ELSE "pages")
             /\ api_requests[1].id = post_id
             /\ api_requests[1].content = post_content
             /\ updated <=> (~api_response.failed /\ api_response.status = 200)

\* an update answered with 201 has returned False
C12_Witness ==
    /\ pcApi = "done"
    /\ api_method = "update_page"
    /\ ~api_response.failed
    /\ api_response.status = 201
    /\ ~updated

(***************************************************************************)
(* Claims about test_connection (SpecConn)                                 *)
(***************************************************************************)
DiscoveryOk == ~discovery.failed /\ discovery.status = 200

\* C13: test_connection sends the discovery call first, and sends it
\* without credentials; the identity call, with credentials, is sent only
\* after the discovery call was answered with status 200; when discovery
\* fails no request with credentials is sent and the result is a failure.
C13_DiscoveryFirstUnauthenticated ==
    /\ Len(conn_requests) >= 1 =>
           conn_requests[1] = [path |-> "/wp-json/", auth |-> "none"]
    /\ \A i \in 1..Len(conn_requests) :
           conn_requests[i].path = "/wp-json/wp/v2/users/me" =>
               i = 2 /\ DiscoveryOk
    /\ (pcConn = "done" /\ ~DiscoveryOk) =>
           /\ \A i \in 1..Len(conn_requests) : conn_requests[i].auth = "none"
           /\ ~conn_result.success

\* The five failures the caller tells apart, read off the result
IsNetworkFailure(result) ==
    result.message.text \in {"Cannot reach WordPress site: {e}",
                             "Connection error: {e}"}
IsDiscoveryStatus(result) ==
    result.message.text =
        "REST API not accessible (status {status}). Check if REST API is enabled."
IsAuthStatus(result, status) ==
    /\ result.message.text = "Authentication failed: {status} - {reason}"
    /\ result.message.status = status
IsNotAcceptable(result) ==
    result.message.text =
        "Authentication failed: 406 Not Acceptable{error_detail} ..."

FailureClasses(result) ==
    (IF IsNetworkFailure(result) THEN {"network"} ELSE {})
      \cup (IF IsDiscoveryStatus(result) THEN {"discovery"} ELSE {})
      \cup (IF IsAuthStatus(result, 401) THEN {"401"} ELSE {})
      \cup (IF IsAuthStatus(result, 403) THEN {"403"} ELSE {})
      \cup (IF IsNotAcceptable(result) THEN {"406"} ELSE {})

\* C14: test_connection returns a (success, message) for every outcome of
\* its two calls and never raises; success is True if and only if both
\* calls were answered with status 200; and the results of a network
\* failure, a non-2xx discovery answer, and an identity answer of 401, 403
\* and 406 each fall into a class of their own.
C14_ResultForEveryOutcome ==
    /\ pcConn # "raised"
    /\ pcConn = "done" =>
         /\ conn_result.success
              <=> (DiscoveryOk /\ ~identity.failed /\ identity.status = 200)
         /\ discovery.failed => FailureClasses(conn_result) = {"network"}
         /\ (DiscoveryOk /\ identity.failed) =>
                FailureClasses(conn_result) = {"network"}
         /\ (~discovery.failed /\ discovery.status \notin 200..299) =>
                FailureClasses(conn_result) = {"discovery"}
         /\ (DiscoveryOk /\ ~identity.failed /\ identity.status = 401) =>
                FailureClasses(conn_result) = {"401"}
         /\ (DiscoveryOk /\ ~identity.failed /\ identity.status = 403) =>
                FailureClasses(conn_result) = {"403"}
         /\ (DiscoveryOk /\ ~identity.failed /\ identity.status = 406) =>
                FailureClasses(conn_result) = {"406"}

(***************************************************************************)
(* Claims about run_diagnostics (SpecDiag)                                 *)
(***************************************************************************)
TestNames ==
    <<"REST API Availability", "Public Posts Endpoint", "HTTPS Enabled",
      "Authentication", "Authorization Header">>

\* C15: run_diagnostics always returns: exactly five check records, in
\* the fixed order, each with a status of pass, warning, fail or unknown,
\* and an overall status that is pass iff all five are pass, fail iff at
\* least one is fail, and warning in every other case.
C15_FiveChecksAndOverall ==
    /\ pcDiag # "raised"
    /\ pcDiag = "done" =>
         LET tests == diag_results.tests
             overall == diag_results.overall_status
             AllPass == \A i \in 1..5 : tests[i].status = "pass"
             AnyFail == \E i \in 1..5 : tests[i].status = "fail"
         IN  /\ Len(tests) = 5
             /\ \A i \in 1..5 :
                    /\ tests[i].name = TestNames[i]
                    /\ tests[i].status \in {"pass", "warning", "fail", "unknown"}
             /\ overall = "pass" <=> AllPass
             /\ overall = "fail" <=> AnyFail
             /\ overall = "warning" <=> (~AllPass /\ ~AnyFail)

(***************************************************************************)
(* Claims about the replacement run (SpecRun)                              *)
(***************************************************************************)
Positions == 1..Len(events)

At(p, event) == events[p].event = event

IsUpdate(e) == e.event \in {"update_post", "update_page"}
IsUploadOrUpdate(e) == e.event = "upload_media" \/ IsUpdate(e)

\* The upload of a file returned a record with its URL
ReturnedUrl(e) ==
    e.event = "upload_media" /\ e.n = 201 /\ e.text \notin {<<>>, Missing}

\* The file whose iteration was the last to start before position p
RECURSIVE InProgressAt(_)
InProgressAt(p) ==
    IF p <= 1 THEN 0
    ELSE IF At(p - 1, "Processing: {name}") THEN events[p - 1].idx
    ELSE InProgressAt(p - 1)

UpdatesOf(i) == {q \in Positions : IsUpdate(events[q]) /\ events[q].idx = i}

\* File i was carried through: a match was followed by the upload, an
\* upload that returned a URL by both listings and the search, and the
\* search by one update call for each item it found
CarriedThrough(i) ==
    /\ (\E p \in Positions : At(p, "Matched") /\ events[p].idx = i)
           => \E q \in Positions :
                  At(q, "upload_media") /\ events[q].idx = i
    /\ (\E p \in Positions : ReturnedUrl(events[p]) /\ events[p].idx = i)
           => /\ \E q \in Positions : At(q, "get_posts") /\ events[q].idx = i
              /\ \E q \in Positions : At(q, "get_pages") /\ events[q].idx = i
    /\ \A p \in Positions :
           (At(p, "Found {n} items to update") /\ events[p].idx = i)
               => Cardinality(UpdatesOf(i)) = events[p].n

\* C16: cancellation takes effect between files only.  When Stop is
\* clicked while a file is being processed, no upload and no update is
\* made for any later file; and when the worker then ends the loop, with
\* "Process stopped by user" or at the end of the list, every file it had
\* started was carried through (its upload and each of its update calls
\* were made), and no call follows.
C16_StopBetweenFilesOnly ==
    /\ \A p \in Positions :
           At(p, "Stopping process...") =>
               \A q \in Positions :
                   IsUploadOrUpdate(events[q]) =>
                       events[q].idx <= InProgressAt(p)
    /\ \A r \in Positions :
           (At(r, "Process stopped by user") \/ At(r, "Replacement complete!")) =>
               /\ \A i \in 1..Len(folder) :
                      (\E p \in 1..r : At(p, "Processing: {name}")
                                          /\ events[p].idx = i)
                          => CarriedThrough(i)
               /\ \A q \in Positions :
                      q > r => events[q].event \notin Requests

\* Stop was clicked after the first of two files had matched and before
\* its upload; the upload and an update of that file followed, and then
\* the worker stopped
C16_Witness ==
    /\ Len(folder) = 2
    /\ \E p, q, r, t \in Positions :
           /\ p < q /\ q < r /\ r < t
           /\ At(p, "Stopping process...") /\ InProgressAt(p) = 1
           /\ At(q, "upload_media") /\ events[q].idx = 1
           /\ IsUpdate(events[r]) /\ events[r].idx = 1
           /\ At(t, "Process stopped by user")

\* C17: every run that passed the connection test and found at least one
\* local file ends with the summary "Processed: k/n files", n the number
\* of local files found, whatever the listings, the matches, the uploads
\* and the updates came to.
C17_AlwaysEndsWithSummary ==
    (/\ pcRun = "finished"
     /\ \E p \in Positions : At(p, "Connection successful!")
     /\ folder # <<>>)
        => \E p \in Positions :
               /\ At(p, "Processed: {k}/{n} files")
               /\ events[p].idx = Len(folder)

IsTextListing(e) == e.event \in {"get_posts", "get_pages"}

UrlOf(i) ==
    LET p == CHOOSE p \in Positions :
                 ReturnedUrl(events[p]) /\ events[p].idx = i
    IN  events[p].text

LastOfWorker(p) ==
    \A q \in (p + 1)..Len(events) : At(q, "Stopping process...")

\* C19: for each local file the steps come in the order match, upload,
\* update.  An upload is made only for a file that matched, and at most
\* once for a file; an update call of a file is made only after that
\* file's upload returned a record, and its content holds the URL that
\* upload returned; a file without a match or with a failed upload gets
\* no update call, and the run goes on with the next file.
C19_MatchUploadUpdate ==
    /\ \A q \in Positions :
           At(q, "upload_media") =>
               /\ \E p \in 1..(q - 1) :
                      At(p, "Matched") /\ events[p].idx = events[q].idx
               /\ \A p \in Positions :
                      (At(p, "upload_media") /\ events[p].idx = events[q].idx)
                          => p = q
    /\ \A r \in Positions :
           IsUpdate(events[r]) =>
               \E q \in 1..(r - 1) :
                   /\ ReturnedUrl(events[q])
                   /\ events[q].idx = events[r].idx
                   /\ Contains(events[r].text, events[q].text)
    /\ \A p \in Positions :
           (\/ At(p, "No matching PNG found")
            \/ At(p, "upload_media") /\ ~ReturnedUrl(events[p])) =>
               UpdatesOf(events[p].idx) = {}
    /\ \A p \in Positions :
           (/\ At(p, "No matching PNG found") \/ At(p, "ERROR: Upload failed")
            /\ LastOfWorker(p)) =>
               /\ locals.idx = events[p].idx + 1
               /\ \/ pcRun = "loop"
                  \/ pcRun = "summary" /\ locals.idx > locals.total_files
    /\ (/\ pcRun = "finished"
        /\ \E p \in Positions : At(p, "Processed: {k}/{n} files")
        /\ ~\E p \in Positions : At(p, "Process stopped by user")) =>
           \A i \in 1..Len(folder) :
               \E p \in Positions :
                   At(p, "Processing: {name}") /\ events[p].idx = i

\* The first file's upload failed; the second file matched, was uploaded
\* and a text item was updated with the URL of that upload
C19_Witness ==
    \E p, q, r \in Positions :
        /\ p < q /\ q < r
        /\ At(p, "ERROR: Upload failed") /\ events[p].idx = 1
        /\ ReturnedUrl(events[q]) /\ events[q].idx = 2
        /\ IsUpdate(events[r]) /\ events[r].idx = 2
        /\ Contains(events[r].text, events[q].text)

\* The files before position p whose upload returned a record
UploadedBefore(p) ==
    {i \in 1..Len(folder) :
        \E q \in 1..(p - 1) : ReturnedUrl(events[q]) /\ events[q].idx = i}

\* C20: the counter of the summary is the number of local files, among
\* those whose iteration started, that matched and whose upload returned
\* a record.  It goes up at most once for a file, never exceeds the number
\* of files, and does not depend on how many update calls of a file
\* failed or on how many replacements were made.
C20_CounterCountsUploadedFiles ==
    /\ locals.successful_replacements =
           Cardinality({i \in UploadedBefore(Len(events) + 1) : i < locals.idx})
    /\ locals.successful_replacements <= Len(folder)
    /\ \A p \in Positions :
           At(p, "Processed: {k}/{n} files") =>
               /\ events[p].idx = Len(folder)
               /\ events[p].n = Cardinality(UploadedBefore(p))
               /\ events[p].n <= events[p].idx

\* Two files were counted although an update call of the first failed
C20_Witness ==
    \E p, r \in Positions :
        /\ r < p
        /\ At(p, "Processed: {k}/{n} files") /\ events[p].n = 2
        /\ IsUpdate(events[r]) /\ events[r].idx = 1
        /\ ~\E u \in Positions :
               /\ events[u].event \in {"Updated post", "Updated page"}
               /\ events[u].idx = 1
               /\ events[u].n = events[r].n

(***************************************************************************)
(* Claims about the threads (SpecThreads)                                  *)
(***************************************************************************)
\* At most one worker thread is in the steps of a run
AtMostOneExecuting ==
    \A v, w \in Workers : Executing(v) /\ Executing(w) => v = w

\* A worker that reported "Process stopped by user" had Stop clicked
\* while it was alive
ReportedOnlyWhenStopped == history.reported \subseteq history.stopped

\* No clean-up took self.running from a run started after its own
NeverClearsLaterRun == history.cleared = {}

\* C21: under every interleaving of the front-end thread with the worker
\* threads, at most one worker executes a run at any time, a worker
\* reports "stopped by user" only if Stop was clicked during that same
\* run, and a worker's clean-up never clears the running flag of a run
\* that was started afterwards.
C21_OneRunAndStopsOnlyOnRequest ==
    /\ AtMostOneExecuting
    /\ ReportedOnlyWhenStopped
    /\ NeverClearsLaterRun
====
